---- MODULE Spec2Model ----
(***************************************************************************)
(* Model of the personal stock screener.                                    *)
(* Ingestion: BaseIngestor.run under retry_with_backoff, the audit log     *)
(* (IngestionLog), and the two concrete ingestors (FundamentalIngestor,    *)
(* NewsIngestor) writing Stock / Fundamental / News / NewsStock rows       *)
(* through SQLAlchemy sessions opened by get_db_context.                   *)
(* Sentiment: SentimentAnalyzer.analyze_pending_news and                   *)
(* aggregate_sentiment_score.  Scoring: FundamentalScorer, CompositeScorer *)
(* and the ranking queries.  Configuration: the weights of Settings and    *)
(* the tracked universe, which ingest_fundamental_for_symbol overrides.    *)
(***************************************************************************)
EXTENDS Integers, Sequences, FiniteSets, TLC

VARIABLES
    ingestion_logs,   \* table ingestion_logs: committed rows, in insertion order
    stocks,           \* table stocks: set of committed symbols (symbol is unique)
    fundamentals,     \* table fundamentals: committed rows, in insertion order
    news,             \* table news: committed rows, in insertion order
    news_stocks,      \* table news_stocks: committed (news url, stock symbol) pairs
    now,              \* the wall clock read by datetime.utcnow()
    worker,           \* per Celery worker: the position and locals of its run()
    started,          \* number of run() calls started so far
    prev,             \* per worker: the run() call it completed before this one
    processed,        \* the (type, bundle) whose process_data committed last
    lastQuery,        \* the last direct is_already_ingested call and its answer
    outage,           \* what is failing now: "none", the "source" or the "store"
    outages,          \* number of outages so far
    sentiment_scores, \* table sentiment_scores: committed rows, in insertion order
    analyzer,         \* per worker: the position and locals of its analyze_pending_news
    inactive,         \* the symbols of the stocks whose is_active is False
    composite_scores, \* table composite_scores: committed rows, in insertion order
    scorer,           \* the position and locals of score_all_stocks
    lastTop,          \* the last ranking query and the rows it returned
    lastScore,        \* the last compute_score_for_stock call and its result
    settings,         \* the module-level Settings object of core.config
    fscore,           \* the last compute_fundamental_score call and its result
    aggregate,        \* the last aggregate_sentiment_score call and its result
    task              \* the position and locals of ingest_fundamental_for_symbol

\* the state of the ingestion framework
ingestVars == <<ingestion_logs, stocks, fundamentals, news, news_stocks, now,
                worker, started, prev, processed, lastQuery, outage, outages>>

\* the state of sentiment analysis
sentimentVars == <<sentiment_scores, analyzer>>

\* the state of composite scoring and of the ranking queries
scoringVars == <<inactive, composite_scores, scorer, lastTop, lastScore>>

\* the configuration, the fundamental scorer and the sentiment aggregation
\* called on their own, and the task that ingests one symbol
pureVars == <<settings, fscore, aggregate, task>>

\* what the ingestion framework never touches
others == <<sentimentVars, scoringVars, pureVars>>

\* what sentiment analysis never touches
sentimentOthers == <<ingestVars, scoringVars, pureVars>>

vars == <<ingestVars, others>>

env == <<now, outage, outages>>

db == <<stocks, fundamentals, news, news_stocks>>

(***************************************************************************)
(* Bounds of the model.                                                    *)
(***************************************************************************)
MaxRuns == 2        \* run() calls started in one behaviour
MaxClock == 1       \* the clock takes the values 0..MaxClock
MaxRaw == 2         \* articles returned by the news source for one fetch
MaxOutages == 1     \* outages of the source or of the store in one behaviour
MaxAnalyses == 2    \* analyze_pending_news calls started in one behaviour

(***************************************************************************)
(* Program constants.                                                      *)
(***************************************************************************)
max_retries == 3    \* @retry_with_backoff(max_retries=3, ...) on run
base_delay == 2     \* @retry_with_backoff(..., base_delay=2.0) on run
max_delay == 60     \* retry_with_backoff default max_delay=60.0

Procs == {"w1", "w2"}
IngestionTypes == {"fundamental", "news"}

\* settings.TRACKED_STOCKS, in iteration order
TRACKED_STOCKS == settings.TRACKED_STOCKS
Symbols == {TRACKED_STOCKS[i] : i \in DOMAIN TRACKED_STOCKS}
\* values the market-data source can report for a ratio
Ratios == {15}

\* articles the news source can return: two URLs, and url + title is the
\* same text for both ("u/a" \o "b" = "u/ab" \o "")
Articles == {
    [url |-> "u/a",  title |-> "b", symbols |-> <<"TCS">>],
    [url |-> "u/ab", title |-> "",  symbols |-> <<"TCS">>] }

Min(a, b) == IF a <= b THEN a ELSE b

RECURSIVE Pow2(_)
Pow2(n) == IF n = 0 THEN 1 ELSE 2 * Pow2(n - 1)

SeqsUpTo(S, n) == UNION {[1..k -> S] : k \in 0..n}

(***************************************************************************)
(* Fetching.                                                               *)
(***************************************************************************)
\* what yfinance answers for a symbol: <<ratio>>, or <<>> when the call raises
Unavailable == <<>>

Infos == [Symbols -> {Unavailable} \cup {<<r>> : r \in Ratios}]

\* FundamentalIngestor._fetch_stock_fundamentals: the metrics of one symbol,
\* stamped with the time of the fetch; <<>> stands for the None it returns
\* when the source call raises
_fetch_stock_fundamentals(info, symbol, t) ==
    IF info[symbol] = Unavailable
    THEN <<>>
    ELSE <<[symbol |-> symbol, pe_ratio |-> info[symbol][1], data_date |-> t]>>

\* FundamentalIngestor.fetch_data: one entry per tracked symbol that has
\* data, in the order of TRACKED_STOCKS
RECURSIVE fetch_fundamentals_from(_, _, _)
fetch_fundamentals_from(info, t, i) ==
    IF i > Len(TRACKED_STOCKS) THEN <<>>
    ELSE _fetch_stock_fundamentals(info, TRACKED_STOCKS[i], t)
            \o fetch_fundamentals_from(info, t, i + 1)

fetch_data_fundamental(info, t) == fetch_fundamentals_from(info, t, 1)

\* NewsIngestor.fetch_data, "Deduplicate by URL": a dict keyed by URL keeps
\* the position of the first article of a URL and the value of the last
RECURSIVE DedupByUrl(_)
DedupByUrl(raw) ==
    IF raw = <<>> THEN <<>>
    ELSE LET n == Len(raw)
             before == DedupByUrl(SubSeq(raw, 1, n - 1))
             a == raw[n]
         IN IF \E i \in DOMAIN before : before[i].url = a.url
            THEN [i \in DOMAIN before |->
                     IF before[i].url = a.url THEN a ELSE before[i]]
            ELSE Append(before, a)

fetch_data_news(raw) == DedupByUrl(raw)

\* BaseIngestor.compute_data_hash: SHA-256 of str(data), collision-free
compute_data_hash(data) == <<"sha256", data>>

ErrorHash == <<"error">>

(***************************************************************************)
(* The audit log.                                                          *)
(***************************************************************************)
\* a query that leaves out the status filter
MatchingLogsAnyStatus(logs, itype, data_hash) ==
    SelectSeq(logs, LAMBDA r : /\ r.ingestion_type = itype
                               /\ r.data_hash = data_hash)

\* the rows the query of is_already_ingested selects
MatchingLogs(logs, itype, data_hash) ==
    SelectSeq(logs, LAMBDA r : /\ r.ingestion_type = itype
                               /\ r.data_hash = data_hash
                               /\ r.status = "success")

\* a check that never finds a row
is_never_ingested(logs, itype, data_hash) == FALSE

\* BaseIngestor.is_already_ingested: .first() of the query is not None
is_already_ingested(logs, itype, data_hash) ==
    Len(MatchingLogs(logs, itype, data_hash)) > 0

\* the row create_ingestion_log adds
IngestionLog(itype, data_hash, status) ==
    [ingestion_type |-> itype, data_hash |-> data_hash, status |-> status]

(***************************************************************************)
(* Sessions and process_data.  A session holds the rows added and flushed  *)
(* but not yet committed; queries see the committed rows and the           *)
(* session's own.                                                          *)
(***************************************************************************)
EmptySession ==
    [stocks |-> {}, fundamentals |-> <<>>, news |-> <<>>, links |-> {},
     broken |-> FALSE]

ZeroMetrics(n) == [fetched |-> n, inserted |-> 0, updated |-> 0, skipped |-> 0]

Skip(st) == [st EXCEPT !.metrics.skipped = @ + 1]

\* one iteration of the loop of FundamentalIngestor.process_data
StoreFundamental(st, f, cstocks) ==
    IF st.session.broken
    THEN Skip(st)     \* the query raises, the except clause counts a skip
    ELSE LET known == f.symbol \in (cstocks \cup st.session.stocks)
         IN [st EXCEPT
                !.session.stocks = IF known THEN @ ELSE @ \cup {f.symbol},
                !.session.fundamentals =
                    Append(@, [stock |-> f.symbol, pe_ratio |-> f.pe_ratio,
                               data_date |-> f.data_date]),
                !.metrics.inserted = @ + 1]

RECURSIVE process_fundamentals_from(_, _, _, _)
process_fundamentals_from(data, i, st, cstocks) ==
    IF i > Len(data) THEN st
    ELSE process_fundamentals_from(data, i + 1,
             StoreFundamental(st, data[i], cstocks), cstocks)

\* FundamentalIngestor.process_data up to its db.commit()
process_data_fundamental(data, cstocks) ==
    process_fundamentals_from(data, 1,
        [session |-> EmptySession, metrics |-> ZeroMetrics(Len(data))], cstocks)

\* NewsIngestor.process_data: the article's fingerprint
content_hash(article) == article.url \o article.title

\* NewsIngestor._extract_stock_symbols: the tracked symbols the text mentions
_extract_stock_symbols(article) == article.symbols

NewsRow(article) ==
    [url |-> article.url, title |-> article.title,
     content_hash |-> content_hash(article)]

\* an existence check on the URL instead of the fingerprint
ExistingNewsByUrl(rows, article) ==
    \E i \in DOMAIN rows : rows[i].url = article.url

\* the existence check of NewsIngestor.process_data
ExistingNews(rows, article) ==
    \E i \in DOMAIN rows : rows[i].content_hash = content_hash(article)

\* one iteration of the loop of NewsIngestor.process_data
StoreArticle(st, article, cnews, cstocks) ==
    LET visible == cnews \o st.session.news
        symbols == _extract_stock_symbols(article)
    IN  IF st.session.broken THEN Skip(st)
        ELSE IF ExistingNews(visible, article) THEN Skip(st)
        ELSE IF symbols = <<>> THEN Skip(st)
        ELSE IF \E i \in DOMAIN visible : visible[i].url = article.url
             \* db.flush() violates news.url unique: the except clause
             \* counts a skip and the session needs a rollback
             THEN [Skip(st) EXCEPT !.session.broken = TRUE]
        ELSE [st EXCEPT
                !.session.news = Append(@, NewsRow(article)),
                !.session.links = @ \cup
                    {[news |-> article.url, stock |-> symbols[k]] :
                        k \in {j \in DOMAIN symbols : symbols[j] \in cstocks}},
                !.metrics.inserted = @ + 1]

RECURSIVE process_news_from(_, _, _, _, _)
process_news_from(data, i, st, cnews, cstocks) ==
    IF i > Len(data) THEN st
    ELSE process_news_from(data, i + 1,
             StoreArticle(st, data[i], cnews, cstocks), cnews, cstocks)

\* NewsIngestor.process_data up to its db.commit()
process_data_news(data, cnews, cstocks) ==
    process_news_from(data, 1,
        [session |-> EmptySession, metrics |-> ZeroMetrics(Len(data))],
        cnews, cstocks)

process_data(itype, data, cnews, cstocks) ==
    IF itype = "fundamental"
    THEN process_data_fundamental(data, cstocks)
    ELSE process_data_news(data, cnews, cstocks)

\* the unique constraints of stocks.symbol, news.url and news.content_hash,
\* checked against the rows committed meanwhile
UniqueViolation(session) ==
    \/ session.stocks \cap stocks # {}
    \/ \E i \in DOMAIN session.news, j \in DOMAIN news :
          \/ session.news[i].url = news[j].url
          \/ session.news[i].content_hash = news[j].content_hash

(***************************************************************************)
(* BaseIngestor.run under retry_with_backoff, one worker's view.           *)
(*   pc: idle -> fetch -> check -> process -> commit -> audit -> done      *)
(*       any failure -> except (run's handler) -> wrapper (the decorator)  *)
(*       -> fetch (next attempt) or done (raised)                          *)
(***************************************************************************)
IdleWorker ==
    [pc |-> "idle", itype |-> "none", attempt |-> 0,
     data |-> <<>>,
     session |-> EmptySession, metrics |-> ZeroMetrics(0),
     error |-> "none",        \* the exception being handled
     status |-> "none",       \* "status" of the returned dictionary
     message |-> "none",      \* "message" of the returned dictionary
     raised |-> "none",       \* the exception run() raised to its caller
     delays |-> <<>>,         \* the delays slept so far, in order
     logBase |-> 0,           \* length of the audit log when run() was called
     lost |-> 0,              \* "failed" rows whose write raised
     procCalled |-> FALSE,    \* this attempt has invoked process_data
     wrote |-> FALSE]         \* this attempt has committed domain rows

\* what is remembered of a worker's previous run() call
NoRun == [itype |-> "none", data |-> <<>>, status |-> "none"]

\* the type, the bundle fetched last and the status returned ("none" when
\* the call raised)
RunRecord(w) == [itype |-> w.itype, data |-> w.data, status |-> w.status]

IngestIdle ==
    /\ ingestion_logs = <<>>
    /\ stocks = {}
    /\ fundamentals = <<>>
    /\ news = <<>>
    /\ news_stocks = {}
    /\ now = 0
    /\ worker = [p \in Procs |-> IdleWorker]
    /\ started = 0
    /\ prev = [p \in Procs |-> NoRun]
    /\ processed = <<>>
    /\ lastQuery = [asked |-> FALSE]
    /\ outage = "none"
    /\ outages = 0

\* an analyzer that has not been called
IdleAnalyzer ==
    [pc |-> "idle", calls |-> 0, pending |-> <<>>, links |-> <<>>,
     metrics |-> [processed |-> 0, skipped |-> 0, errors |-> 0]]

SentimentIdle ==
    /\ sentiment_scores = <<>>
    /\ analyzer = [p \in Procs |-> IdleAnalyzer]

\* a scorer that has not been called
IdleScorer ==
    [pc |-> "idle", runs |-> 0, score_date |-> 0, todo |-> <<>>,
     scores |-> <<>>, scored |-> 0, skipped |-> 0, errors |-> 0,
     active |-> <<>>, raised |-> <<>>, aborted |-> FALSE, stored |-> 0,
     faults |-> 0, fundamental_weight |-> 0, sentiment_weight |-> 0]

\* no ranking query yet
NoTop == [kind |-> "none", limit |-> 0, rows |-> <<>>]

\* no compute_score_for_stock call yet
NoScore == [called |-> FALSE]

ScoringIdle ==
    /\ inactive = {}
    /\ composite_scores = <<>>
    /\ scorer = IdleScorer
    /\ lastTop = NoTop
    /\ lastScore = NoScore

\* core.config line 176, settings = Settings() with nothing in the
\* environment: the defaults 0.6 and 0.4, in thousandths, and the tracked
\* universe
DefaultSettings ==
    [status |-> "ok", FUNDAMENTAL_WEIGHT |-> 600, SENTIMENT_WEIGHT |-> 400,
     TRACKED_STOCKS |-> <<"TCS">>]

\* ingest_fundamental_for_symbol has not been called
NoTask == [pc |-> "idle"]

\* compute_fundamental_score has not been called
NoFScore == [called |-> FALSE]

\* aggregate_sentiment_score has not been called
NoAggregate == [called |-> FALSE]

PureIdle ==
    /\ settings = DefaultSettings
    /\ fscore = NoFScore
    /\ aggregate = NoAggregate
    /\ task = NoTask

Init ==
    /\ IngestIdle
    /\ SentimentIdle
    /\ ScoringIdle
    /\ PureIdle

\* the scheduler (or a caller) invokes run() of an ingestor of type t
StartRun(p, t) ==
    /\ worker[p].pc \in {"idle", "done"}
    /\ started < MaxRuns
    /\ started' = started + 1
    /\ prev' = [prev EXCEPT ![p] =
                   IF worker[p].pc = "done" THEN RunRecord(worker[p]) ELSE @]
    /\ worker' = [worker EXCEPT ![p] =
                     [IdleWorker EXCEPT !.pc = "fetch", !.itype = t,
                                        !.logBase = Len(ingestion_logs)]]
    /\ lastQuery' = [asked |-> FALSE]
    /\ UNCHANGED <<others, ingestion_logs, db, env, processed>>

\* run(), lines 218-234: fetch_data returned `data`
Fetched(p, data) ==
    /\ worker' = [worker EXCEPT ![p] =
          IF data = <<>>
          THEN [@ EXCEPT !.pc = "done", !.data = data, !.status = "success",
                         !.message = "No data to ingest"]
          ELSE [@ EXCEPT !.pc = "check", !.data = data]]
    /\ UNCHANGED <<others, ingestion_logs, db, env, started, prev, processed, lastQuery>>

FetchFundamental(p) ==
    /\ worker[p].pc = "fetch"
    /\ worker[p].itype = "fundamental"
    /\ outage # "source"
    /\ \E info \in Infos : Fetched(p, fetch_data_fundamental(info, now))

FetchNews(p) ==
    /\ worker[p].pc = "fetch"
    /\ worker[p].itype = "news"
    /\ outage # "source"
    /\ \E raw \in SeqsUpTo(Articles, MaxRaw) : Fetched(p, fetch_data_news(raw))

\* an exception escapes a stage of run()'s try block; get_db_context rolls
\* the session back
Raise(p, stage) ==
    /\ worker' = [worker EXCEPT ![p] =
                     [@ EXCEPT !.pc = "except", !.error = stage,
                               !.session = EmptySession]]
    /\ UNCHANGED <<others, ingestion_logs, db, env, started, prev, processed, lastQuery>>

\* fetch_data, abstract in BaseIngestor, raises
FetchRaises(p) ==
    /\ worker[p].pc = "fetch"
    /\ outage = "source"
    /\ Raise(p, "fetch_data")

\* a run() that makes the idempotency check after processing the bundle
CheckAfterProcess(p) ==
    LET w == worker[p]
        st == process_data(w.itype, w.data, news, stocks)
        after == [w EXCEPT !.metrics = st.metrics, !.procCalled = TRUE,
                           !.wrote = TRUE]
    IN  /\ w.pc = "check"
        /\ outage # "store"
        /\ ~st.session.broken
        /\ stocks' = stocks \cup st.session.stocks
        /\ fundamentals' = fundamentals \o st.session.fundamentals
        /\ news' = news \o st.session.news
        /\ news_stocks' = news_stocks \cup st.session.links
        /\ processed' = <<w.itype, w.data>>
        /\ worker' = [worker EXCEPT ![p] =
              IF is_already_ingested(ingestion_logs, w.itype,
                                     compute_data_hash(w.data))
              THEN [after EXCEPT !.pc = "done", !.status = "skipped",
                                 !.message = "Data already ingested"]
              ELSE [after EXCEPT !.pc = "audit"]]
        /\ UNCHANGED <<others, ingestion_logs, env, started, prev, lastQuery>>

\* run(), lines 237-244: the idempotency check
CheckIngested(p) ==
    LET w == worker[p]
    IN  /\ w.pc = "check"
        /\ outage # "store"
        /\ worker' = [worker EXCEPT ![p] =
              IF is_already_ingested(ingestion_logs, w.itype,
                                     compute_data_hash(w.data))
              THEN [w EXCEPT !.pc = "done", !.status = "skipped",
                             !.message = "Data already ingested"]
              ELSE [w EXCEPT !.pc = "process"]]
        /\ UNCHANGED <<others, ingestion_logs, db, env, started, prev, processed,
                       lastQuery>>

\* the query raises: the store is unreachable
CheckRaises(p) ==
    /\ worker[p].pc = "check"
    /\ outage = "store"
    /\ Raise(p, "is_already_ingested")

\* run(), line 248: process_data up to its commit, on the rows committed now
ProcessData(p) ==
    LET w == worker[p]
        st == process_data(w.itype, w.data, news, stocks)
    IN  /\ w.pc = "process"
        /\ worker' = [worker EXCEPT ![p] =
                         [w EXCEPT !.pc = "commit", !.session = st.session,
                                   !.metrics = st.metrics, !.procCalled = TRUE]]
        /\ UNCHANGED <<others, ingestion_logs, db, env, started, prev, processed,
                       lastQuery>>

\* db.commit() raises when the session needs a rollback, a unique constraint
\* is violated, or the store is unreachable
CommitFails(session) ==
    session.broken \/ UniqueViolation(session) \/ outage = "store"

\* db.commit() of process_data succeeds
CommitData(p) ==
    LET w == worker[p]
    IN  /\ w.pc = "commit"
        /\ ~CommitFails(w.session)
        /\ stocks' = stocks \cup w.session.stocks
        /\ fundamentals' = fundamentals \o w.session.fundamentals
        /\ news' = news \o w.session.news
        /\ news_stocks' = news_stocks \cup w.session.links
        /\ processed' = <<w.itype, w.data>>
        /\ worker' = [worker EXCEPT ![p] =
                         [w EXCEPT !.pc = "audit", !.session = EmptySession,
                                   !.wrote = TRUE]]
        /\ UNCHANGED <<others, ingestion_logs, env, started, prev, lastQuery>>

\* db.commit() of process_data raises
CommitRaises(p) ==
    /\ worker[p].pc = "commit"
    /\ CommitFails(worker[p].session)
    /\ Raise(p, "process_data")

\* run(), lines 253-275: the "success" row is committed and run() returns
AuditSuccess(p) ==
    LET w == worker[p]
    IN  /\ w.pc = "audit"
        /\ outage # "store"
        /\ ingestion_logs' = Append(ingestion_logs,
               IngestionLog(w.itype, compute_data_hash(w.data), "success"))
        /\ worker' = [worker EXCEPT ![p] =
               [w EXCEPT !.pc = "done", !.status = "success",
                         !.message = "Ingestion completed successfully"]]
        /\ UNCHANGED <<others, db, env, started, prev, processed, lastQuery>>

\* the commit of create_ingestion_log raises
AuditRaises(p) ==
    /\ worker[p].pc = "audit"
    /\ outage = "store"
    /\ Raise(p, "create_ingestion_log")

\* a handler that re-raises without writing a row
ExceptSilent(p) ==
    /\ worker[p].pc = "except"
    /\ outage # "store"
    /\ worker' = [worker EXCEPT ![p] = [@ EXCEPT !.pc = "wrapper"]]
    /\ UNCHANGED <<others, ingestion_logs, db, env, started, prev, processed, lastQuery>>

\* run(), lines 277-297: the handler commits a "failed" row and re-raises
ExceptLogged(p) ==
    LET w == worker[p]
    IN  /\ w.pc = "except"
        /\ outage # "store"
        /\ ingestion_logs' = Append(ingestion_logs,
               IngestionLog(w.itype, ErrorHash, "failed"))
        /\ worker' = [worker EXCEPT ![p] = [w EXCEPT !.pc = "wrapper"]]
        /\ UNCHANGED <<others, db, env, started, prev, processed, lastQuery>>

\* a handler that lets the error of the audit write escape
ExceptLogEscapes(p) ==
    /\ worker[p].pc = "except"
    /\ outage = "store"
    /\ worker' = [worker EXCEPT ![p] =
                     [@ EXCEPT !.pc = "wrapper", !.lost = @ + 1,
                               !.error = "create_ingestion_log"]]
    /\ UNCHANGED <<others, ingestion_logs, db, env, started, prev, processed, lastQuery>>

\* run(), lines 294-297: writing the "failed" row raises; the handler logs
\* that and re-raises the original exception
ExceptLogRaises(p) ==
    LET w == worker[p]
    IN  /\ w.pc = "except"
        /\ outage = "store"
        /\ worker' = [worker EXCEPT ![p] =
                         [w EXCEPT !.pc = "wrapper", !.lost = @ + 1]]
        /\ UNCHANGED <<others, ingestion_logs, db, env, started, prev, processed,
                       lastQuery>>

\* a backoff that grows by base_delay instead of doubling
LinearDelay(attempt) == Min(base_delay * (attempt + 1), max_delay)

\* retry_with_backoff, line 43
Delay(attempt) == Min(base_delay * Pow2(attempt), max_delay)

\* retry_with_backoff, lines 42-48: sleep, then the next attempt
Retry(p) ==
    LET w == worker[p]
    IN  /\ w.pc = "wrapper"
        /\ w.attempt < max_retries
        /\ worker' = [worker EXCEPT ![p] =
                         [w EXCEPT !.pc = "fetch", !.attempt = @ + 1,
                                   !.delays = Append(@, Delay(w.attempt)),
                                   !.data = <<>>,
                                   !.metrics = ZeroMetrics(0),
                                   !.procCalled = FALSE, !.wrote = FALSE]]
        /\ UNCHANGED <<others, ingestion_logs, db, env, started, prev, processed,
                       lastQuery>>

\* retry_with_backoff, lines 49-54: the last attempt failed, raise
GiveUp(p) ==
    LET w == worker[p]
    IN  /\ w.pc = "wrapper"
        /\ ~(w.attempt < max_retries)
        /\ worker' = [worker EXCEPT ![p] =
                         [w EXCEPT !.pc = "done", !.raised = w.error]]
        /\ UNCHANGED <<others, ingestion_logs, db, env, started, prev, processed,
                       lastQuery>>

(***************************************************************************)
(* The environment.  A change of the clock or of what is reachable shows   *)
(* only at the next step that reads it, so it is taken right before one.   *)
(***************************************************************************)
ReadsClock(w) == w.pc = "fetch" /\ w.itype = "fundamental"
ReadsSource(w) == w.pc = "fetch"
ReadsStore(w) == w.pc \in {"check", "commit", "audit", "except"}

Reads(kind, w) == IF kind = "source" THEN ReadsSource(w) ELSE ReadsStore(w)

\* time passes
Tick ==
    /\ now < MaxClock
    /\ \E p \in Procs : ReadsClock(worker[p])
    /\ now' = now + 1
    /\ UNCHANGED <<others, ingestion_logs, db, worker, started, prev, processed,
                   lastQuery, outage, outages>>

\* the data source or the store becomes unreachable
OutageBegins(kind) ==
    /\ outage = "none"
    /\ outages < MaxOutages
    /\ \E p \in Procs : Reads(kind, worker[p])
    /\ outage' = kind
    /\ outages' = outages + 1
    /\ UNCHANGED <<others, ingestion_logs, db, worker, started, prev, processed,
                   lastQuery, now>>

OutageEnds ==
    /\ outage # "none"
    /\ \E p \in Procs : Reads(outage, worker[p])
    /\ outage' = "none"
    /\ UNCHANGED <<others, ingestion_logs, db, worker, started, prev, processed,
                   lastQuery, now, outages>>

Environment ==
    \/ Tick
    \/ \E kind \in {"source", "store"} : OutageBegins(kind)
    \/ OutageEnds

RunStep(p) ==
    \/ FetchFundamental(p)
    \/ FetchNews(p)
    \/ FetchRaises(p)
    \/ CheckIngested(p)
    \/ CheckRaises(p)
    \/ ProcessData(p)
    \/ CommitData(p)
    \/ CommitRaises(p)
    \/ AuditSuccess(p)
    \/ AuditRaises(p)
    \/ ExceptLogged(p)
    \/ ExceptLogRaises(p)
    \/ Retry(p)
    \/ GiveUp(p)

\* a direct call of is_already_ingested on an ingestor of type t, between
\* two run() calls
Query(p, t, h) ==
    /\ worker[p].pc = "done"
    /\ ~lastQuery.asked
    /\ lastQuery' = [asked |-> TRUE, itype |-> t, data_hash |-> h,
                     answer |-> is_already_ingested(ingestion_logs, t, h)]
    /\ UNCHANGED <<others, ingestion_logs, db, env, worker, started, prev, processed>>

\* the fingerprints a caller can ask about: those of the log, the marker of
\* a failed attempt, and one the log never holds
QueryHashes ==
    {ingestion_logs[i].data_hash : i \in DOMAIN ingestion_logs}
        \cup {ErrorHash, compute_data_hash(<<>>)}

\* one worker: run() calls follow one another
Next ==
    \/ \E t \in IngestionTypes : StartRun("w1", t)
    \/ RunStep("w1")
    \/ Environment

Spec == Init /\ [][Next]_vars

\* the worker keeps running a call it has started: every statement of run()
\* and of the decorator returns
FairSpec == Spec /\ WF_vars(RunStep("w1"))

\* one worker, with direct calls of is_already_ingested between its runs
QueryNext ==
    \/ Next
    \/ \E t \in IngestionTypes, h \in QueryHashes : Query("w1", t, h)

QuerySpec == Init /\ [][QueryNext]_vars

\* the steps of run() while the source and the store are reachable
ConcStep(p) ==
    \/ FetchFundamental(p)
    \/ FetchNews(p)
    \/ CheckIngested(p)
    \/ ProcessData(p)
    \/ CommitData(p)
    \/ CommitRaises(p)
    \/ AuditSuccess(p)
    \/ ExceptLogged(p)
    \/ Retry(p)

\* two workers: run() calls overlap
ConcNext ==
    \/ \E p \in Procs, t \in IngestionTypes : StartRun(p, t)
    \/ \E p \in Procs : ConcStep(p)
    \/ Tick

ConcSpec == Init /\ [][ConcNext]_vars

(***************************************************************************)
(* Sentiment analysis: SentimentAnalyzer.analyze_pending_news, called by   *)
(* the task analyze_pending_sentiment, which the beat schedule starts and  *)
(* which ingest_news_data starts after a successful news ingestion.        *)
(*   pc: idle -> news (the loop over the pending news) <-> links (the loop *)
(*       over the stocks of one news item) -> done                         *)
(***************************************************************************)
\* the stocks and the news the sentiment analysis works on
Securities == {"TCS", "INFY"}
SecurityOrder == <<"TCS", "INFY">>

StoredNews ==
    <<[url |-> "u/1", title |-> "t1", content_hash |-> "u/1t1"],
      [url |-> "u/2", title |-> "t2", content_hash |-> "u/2t2"]>>

NewsIds == {StoredNews[i].url : i \in DOMAIN StoredNews}

Links == {[news |-> n, stock |-> c] : n \in NewsIds, c \in Securities}

\* the news and their associations are in the store, no sentiment yet
SentimentInit ==
    /\ ingestion_logs = <<>>
    /\ stocks = Securities
    /\ fundamentals = <<>>
    /\ news = StoredNews
    /\ news_stocks \in SUBSET Links
    /\ now = 0
    /\ worker = [p \in Procs |-> IdleWorker]
    /\ started = 0
    /\ prev = [p \in Procs |-> NoRun]
    /\ processed = <<>>
    /\ lastQuery = [asked |-> FALSE]
    /\ outage = "none"
    /\ outages = 0
    /\ SentimentIdle
    /\ ScoringIdle
    /\ PureIdle

\* analyze_pending_news, line 170: limit, the most news items of one call
news_limit == 100

\* analyze_pending_news, lines 192-196: the news that have no sentiment
\* score, in the order of the query
PendingNews(scores, rows) ==
    LET unscored ==
            SelectSeq([i \in DOMAIN rows |-> rows[i].url],
                      LAMBDA n : \A k \in DOMAIN scores : scores[k].news_id # n)
    IN  SubSeq(unscored, 1, Min(Len(unscored), news_limit))

\* analyze_pending_news, lines 203-205: the stocks associated with a news
\* item
LinkedStocks(n, links) ==
    SelectSeq(SecurityOrder,
              LAMBDA c : [news |-> n, stock |-> c] \in links)

\* the row analyze_news_article adds
SentimentScore(n, c) == [news_id |-> n, stock_id |-> c]

AnalysesStarted == analyzer["w1"].calls + analyzer["w2"].calls

\* the task calls analyze_pending_news, which queries the pending news
StartAnalysis(p) ==
    /\ analyzer[p].pc \in {"idle", "done"}
    /\ AnalysesStarted < MaxAnalyses
    /\ analyzer' = [analyzer EXCEPT ![p] =
          [IdleAnalyzer EXCEPT
              !.pc = "news", !.calls = analyzer[p].calls + 1,
              !.pending = PendingNews(sentiment_scores, news)]]
    /\ UNCHANGED <<sentimentOthers, sentiment_scores>>

\* analyze_pending_news, lines 200-209: the next news item and its stocks
NextNews(p) ==
    LET a == analyzer[p]
        n == Head(a.pending)
        cs == LinkedStocks(n, news_stocks)
    IN  /\ a.pc = "news"
        /\ a.pending # <<>>
        /\ analyzer' = [analyzer EXCEPT ![p] =
              IF cs = <<>>
              THEN [a EXCEPT !.pending = Tail(@), !.metrics.skipped = @ + 1]
              ELSE [a EXCEPT !.pc = "links", !.links = cs]]
        /\ UNCHANGED <<sentimentOthers, sentiment_scores>>

\* what is left to do after the stock at the head of links
AfterLink(a) ==
    IF Len(a.links) = 1
    THEN [a EXCEPT !.pc = "news", !.links = <<>>, !.pending = Tail(@),
                   !.metrics.processed = @ + 1]
    ELSE [a EXCEPT !.links = Tail(@), !.metrics.processed = @ + 1]

\* analyze_news_article, lines 130-163: the classifier answers, the row is
\* added and committed
AnalyzeArticle(p) ==
    LET a == analyzer[p]
    IN  /\ a.pc = "links"
        /\ sentiment_scores' = Append(sentiment_scores,
               SentimentScore(Head(a.pending), Head(a.links)))
        /\ analyzer' = [analyzer EXCEPT ![p] = AfterLink(a)]
        /\ UNCHANGED sentimentOthers

\* analyze_news_article, lines 165-168: the classifier or the store raises,
\* the session is rolled back and None is returned
AnalyzeFails(p) ==
    LET a == analyzer[p]
    IN  /\ a.pc = "links"
        /\ analyzer' = [analyzer EXCEPT ![p] = AfterLink(a)]
        /\ UNCHANGED <<sentimentOthers, sentiment_scores>>

\* analyze_pending_news, line 222: the loop is over, the metrics are returned
FinishAnalysis(p) ==
    LET a == analyzer[p]
    IN  /\ a.pc = "news"
        /\ a.pending = <<>>
        /\ analyzer' = [analyzer EXCEPT ![p] = [a EXCEPT !.pc = "done"]]
        /\ UNCHANGED <<sentimentOthers, sentiment_scores>>

AnalysisStep(p) ==
    \/ StartAnalysis(p)
    \/ NextNews(p)
    \/ AnalyzeArticle(p)
    \/ AnalyzeFails(p)
    \/ FinishAnalysis(p)

\* the scheduled and the triggered analysis run on two workers
SentimentNext == \E p \in Procs : AnalysisStep(p)

SentimentSpec == SentimentInit /\ [][SentimentNext]_vars

\* the beat schedule starts analyze_pending_news again and again
ScheduledAnalysis(p) ==
    /\ analyzer[p].pc \in {"idle", "done"}
    /\ analyzer' = [analyzer EXCEPT ![p] =
          [IdleAnalyzer EXCEPT
              !.pc = "news",
              !.calls = Min(analyzer[p].calls + 1, MaxAnalyses),
              !.pending = PendingNews(sentiment_scores, news)]]
    /\ UNCHANGED <<sentimentOthers, sentiment_scores>>

\* analyze_news_article, lines 165-168, while the classifier or the store is
\* out of order, which happens MaxOutages times at most: the session is
\* rolled back and None is returned
AnalyzeFailsInOutage(p) ==
    LET a == analyzer[p]
    IN  /\ a.pc = "links"
        /\ outages < MaxOutages
        /\ outages' = outages + 1
        /\ analyzer' = [analyzer EXCEPT ![p] = AfterLink(a)]
        /\ UNCHANGED <<ingestion_logs, stocks, fundamentals, news, news_stocks,
                       now, worker, started, prev, processed, lastQuery,
                       outage, sentiment_scores, scoringVars, pureVars>>

RepeatedStep(p) ==
    \/ ScheduledAnalysis(p)
    \/ NextNews(p)
    \/ AnalyzeArticle(p)
    \/ AnalyzeFailsInOutage(p)
    \/ FinishAnalysis(p)

RepeatedNext == RepeatedStep("w1")

\* one worker runs analyze_pending_news for ever: the schedule keeps
\* starting it (every two hours) and every statement of a call returns
RepeatedSpec ==
    SentimentInit /\ [][RepeatedNext]_vars /\ WF_vars(RepeatedNext)

(***************************************************************************)
(* Fundamental scoring: FundamentalScorer.score_metric and                 *)
(* compute_fundamental_score.  Numbers are fixed-point integers: a metric  *)
(* value and a weight are in hundredths, the score of one metric is in     *)
(* ten-thousandths of a point (100 points = 1000000), a total score is in  *)
(* hundredths of a point, as round(x, 2) leaves it.                        *)
(***************************************************************************)
Point == 10000      \* one point of a metric score, in ten-thousandths

Max(a, b) == IF a >= b THEN a ELSE b

\* round(a / b) for b > 0, ties to the even neighbour as Python's round
RoundHalfEven(a, b) ==
    LET q == a \div b
        r == a % b
    IN  IF 2 * r < b THEN q
        ELSE IF 2 * r > b THEN q + 1
        ELSE IF q % 2 = 0 THEN q ELSE q + 1

\* a value that is None, and a value that is present
None == <<>>
Some(v) == <<v>>

MetricNames ==
    <<"pe_ratio", "pb_ratio", "roe", "debt_to_equity", "current_ratio",
      "operating_margin", "revenue_growth">>

\* FundamentalScorer.__init__, self.thresholds, with the thresholds of
\* core.config; excellent, good and weight in hundredths
thresholds ==
    [pe_ratio |->
        [excellent |-> 1500, good |-> 2500, weight |-> 15, inverse |-> FALSE],
     pb_ratio |->
        [excellent |-> 200, good |-> 300, weight |-> 10, inverse |-> FALSE],
     roe |->
        [excellent |-> 2000, good |-> 1500, weight |-> 20, inverse |-> FALSE],
     debt_to_equity |->
        [excellent |-> 50, good |-> 100, weight |-> 15, inverse |-> TRUE],
     current_ratio |->
        [excellent |-> 200, good |-> 150, weight |-> 10, inverse |-> FALSE],
     operating_margin |->
        [excellent |-> 20, good |-> 10, weight |-> 15, inverse |-> FALSE],
     revenue_growth |->
        [excellent |-> 20, good |-> 10, weight |-> 15, inverse |-> FALSE]]

\* score_metric with the comparisons against the excellent threshold made
\* strict
score_metric_strict(value, excellent_threshold, good_threshold, inverse) ==
    IF value = None THEN 50 * Point
    ELSE LET v == value[1]
         IN  IF inverse
             THEN IF v < excellent_threshold THEN 100 * Point
                  ELSE IF v <= good_threshold
                  THEN 70 * Point
                       + (30 * Point * (good_threshold - v))
                             \div (good_threshold - excellent_threshold)
                  ELSE Max(0, 70 * Point
                              - (v - good_threshold) * 20 * (Point \div 100))
             ELSE IF v > excellent_threshold THEN 100 * Point
                  ELSE IF v >= good_threshold
                  THEN 70 * Point
                       + (30 * Point * (v - good_threshold))
                             \div (excellent_threshold - good_threshold)
                  ELSE Max(0, (70 * Point * v) \div good_threshold)

\* score_metric: the score of one metric; a quotient that is not a whole
\* number of ten-thousandths is cut there
score_metric(value, excellent_threshold, good_threshold, inverse) ==
    IF value = None THEN 50 * Point
    ELSE LET v == value[1]
         IN  IF inverse
             THEN IF v <= excellent_threshold THEN 100 * Point
                  ELSE IF v <= good_threshold
                  THEN 70 * Point
                       + (30 * Point * (good_threshold - v))
                             \div (good_threshold - excellent_threshold)
                  ELSE Max(0, Max(0, 70 * Point
                                     - (v - good_threshold) * 20 * (Point \div 100)))
             ELSE IF v >= excellent_threshold THEN 100 * Point
                  ELSE IF v >= good_threshold
                  THEN 70 * Point
                       + (30 * Point * (v - good_threshold))
                             \div (excellent_threshold - good_threshold)
                  ELSE Max(0, (70 * Point * v) \div good_threshold)

\* compute_fundamental_score, lines 136-149: the score of the metric name
\* of a snapshot
MetricScore(fundamental, name) ==
    score_metric(fundamental[name], thresholds[name].excellent,
                 thresholds[name].good, thresholds[name].inverse)

RECURSIVE SumOver(_, _)
\* the sum of f[i] over the positions of a sequence
SumOver(f, n) == IF n = 0 THEN 0 ELSE f[n] + SumOver(f, n - 1)

\* compute_fundamental_score, line 163: the weighted mean of the metric
\* scores is multiplied by 100
final_score_num(fundamental) ==
    SumOver([i \in DOMAIN MetricNames |->
                MetricScore(fundamental, MetricNames[i])
                    * thresholds[MetricNames[i]].weight],
            Len(MetricNames))

total_weight == SumOver([i \in DOMAIN MetricNames |->
                            thresholds[MetricNames[i]].weight],
                        Len(MetricNames))

\* compute_fundamental_score: total_score = round(final_score, 2), in
\* hundredths of a point.  (total_score / total_weight) is in
\* ten-thousandths of a point; times 100 it is that many hundredths.
\* compute_fundamental_score, lines 134-158: the loop gives every metric of
\* metric_mappings that has thresholds an entry of scores, whether its value
\* is None or not; score and weighted_score are rounded to hundredths
breakdown(fundamental) ==
    [name \in {MetricNames[i] : i \in DOMAIN MetricNames} |->
        [value |-> fundamental[name],
         score |-> RoundHalfEven(MetricScore(fundamental, name), 100),
         weight |-> thresholds[name].weight,
         weighted_score |->
            RoundHalfEven(MetricScore(fundamental, name)
                              * thresholds[name].weight, Point)]]

compute_fundamental_score(fundamental) ==
    [total_score |->
        IF total_weight > 0
        THEN RoundHalfEven(final_score_num(fundamental), total_weight)
        ELSE 50 * 100,
     breakdown |-> breakdown(fundamental),
     metrics_used |-> Cardinality(DOMAIN breakdown(fundamental)),
     total_weight |-> total_weight]

\* the values a metric takes in the model: absent, below zero, between the
\* two thresholds, the excellent threshold and far above both
MetricValues(name) ==
    LET t == thresholds[name]
    IN  {None, Some(0 - t.good), Some((t.good + t.excellent) \div 2),
         Some(t.excellent), Some(10 * Max(t.good, t.excellent))}

\* the metric values of every FundamentalSnapshot of the model
Snapshots ==
    [pe_ratio : MetricValues("pe_ratio"),
     pb_ratio : MetricValues("pb_ratio"),
     roe : MetricValues("roe"),
     debt_to_equity : MetricValues("debt_to_equity"),
     current_ratio : MetricValues("current_ratio"),
     operating_margin : MetricValues("operating_margin"),
     revenue_growth : MetricValues("revenue_growth")]

\* a caller computes the fundamental score of a snapshot, once in a
\* behaviour
ComputeFundamentalScore ==
    /\ ~fscore.called
    /\ \E fundamental \in Snapshots :
          fscore' = [called |-> TRUE, fundamental |-> fundamental,
                     result |-> compute_fundamental_score(fundamental)]
    /\ UNCHANGED <<ingestVars, sentimentVars, scoringVars, settings, aggregate,
                   task>>

FundNext == ComputeFundamentalScore

FundSpec == Init /\ [][FundNext]_vars

(***************************************************************************)
(* score_metric on its own: one metric of the scorer, with the thresholds  *)
(* and the inverse flag that compute_fundamental_score passes for it, and  *)
(* a value at, just below and just above each of the two thresholds.       *)
(***************************************************************************)
MaxOffset == 5      \* values up to MaxOffset hundredths from a threshold

\* the values of one metric: absent, around the good and the excellent
\* threshold, below zero and far above both
MetricGrid(name) ==
    LET t == thresholds[name]
    IN  {None, Some(0 - t.good), Some(10 * Max(t.good, t.excellent))}
        \cup {Some(t.excellent + d) : d \in (0 - MaxOffset)..MaxOffset}
        \cup {Some(t.good + d) : d \in (0 - MaxOffset)..MaxOffset}

\* compute_fundamental_score, lines 136-143: one call of score_metric, once
\* in a behaviour
ScoreMetric ==
    /\ ~fscore.called
    /\ \E i \in DOMAIN MetricNames :
          \E value \in MetricGrid(MetricNames[i]) :
             LET threshold == thresholds[MetricNames[i]]
             IN  fscore' = [called |-> TRUE,
                            metric |-> MetricNames[i],
                            value |-> value,
                            excellent_threshold |-> threshold.excellent,
                            good_threshold |-> threshold.good,
                            inverse |-> threshold.inverse,
                            score |-> score_metric(value, threshold.excellent,
                                                   threshold.good,
                                                   threshold.inverse)]
    /\ UNCHANGED <<ingestVars, sentimentVars, scoringVars, settings, aggregate,
                   task>>

MetricNext == ScoreMetric

MetricSpec == Init /\ [][MetricNext]_vars

(***************************************************************************)
(* Composite scoring: CompositeScorer.compute_composite_score and          *)
(* score_all_stocks, run by the task compute_all_scores in one session of  *)
(* get_db_context, and SentimentAnalyzer.aggregate_sentiment_score.        *)
(* Weights are in thousandths, sentiment scores (-1..+1) in hundredths,    *)
(* the scores on the 0-100 scale in hundredths of a point.  The clock      *)
(* counts days.                                                            *)
(*   pc: idle -> loop (one step for each active stock) -> done | raised    *)
(***************************************************************************)
MaxBatches == 2     \* score_all_stocks calls started in one behaviour
MaxFaults == 1      \* exceptions that arise of their own in one behaviour
MaxLimit == 2       \* the limit of a ranking query is in 1..MaxLimit
MaxInactive == 1    \* stocks deactivated in one behaviour

days == 30          \* aggregate_sentiment_score(..., days=30)

\* the stocks of the store in primary-key order, and an id with no row
Listed == <<"TCS", "INFY", "WIPRO">>
Unlisted == "HCL"

\* snapshots of a stock: every metric absent, every metric excellent
Weak == [n \in {MetricNames[i] : i \in DOMAIN MetricNames} |-> None]
Strong ==
    [n \in {MetricNames[i] : i \in DOMAIN MetricNames} |->
        Some(thresholds[n].excellent)]

\* a row of the table fundamentals
Fundamental(c, snapshot, data_date) ==
    snapshot @@ [stock |-> c, data_date |-> data_date]

\* the fundamentals stored for one stock: none or one snapshot
FewFundamentals(c) == {<<>>, <<Fundamental(c, Weak, 0)>>}

\* the fundamentals stored for one stock: none, one snapshot, or an older
\* and a newer one
FundamentalHistories(c) ==
    FewFundamentals(c)
        \cup {<<Fundamental(c, Weak, 0), Fundamental(c, Strong, 1)>>}

\* a row of the table sentiment_scores as the aggregation reads it
Observation(n, c, label, v, created_at) ==
    [news_id |-> n, stock_id |-> c, sentiment_label |-> label,
     sentiment_score |-> v, created_at |-> created_at]

\* the sentiment stored before scoring starts on day days + 1: nothing, an
\* observation older than the window, or one of the first day of the
\* window and one of today
SentimentHistories ==
    {<<>>,
     <<Observation("u/1", "TCS", "positive", 50, 0)>>,
     <<Observation("u/1", "TCS", "positive", 90, 1),
       Observation("u/2", "TCS", "negative", 0 - 25, days + 1)>>}

\* settings objects whose construction succeeds
ValidSettings ==
    {DefaultSettings,
     [DefaultSettings EXCEPT !.FUNDAMENTAL_WEIGHT = 500,
                             !.SENTIMENT_WEIGHT = 500]}

\* the store after ingestion and sentiment analysis, on day days + 1
ScoreInit ==
    /\ ingestion_logs = <<>>
    /\ stocks = {Listed[i] : i \in DOMAIN Listed}
    /\ \E f1 \in FundamentalHistories(Listed[1]),
          f2 \in FundamentalHistories(Listed[2]),
          f3 \in FewFundamentals(Listed[3]) :
          fundamentals = f1 \o f2 \o f3
    /\ news = StoredNews
    /\ news_stocks = {}
    /\ now = days + 1
    /\ worker = [p \in Procs |-> IdleWorker]
    /\ started = 0
    /\ prev = [p \in Procs |-> NoRun]
    /\ processed = <<>>
    /\ lastQuery = [asked |-> FALSE]
    /\ outage = "none"
    /\ outages = 0
    /\ sentiment_scores \in SentimentHistories
    /\ analyzer = [p \in Procs |-> IdleAnalyzer]
    /\ ScoringIdle
    /\ settings \in ValidSettings
    /\ fscore = NoFScore
    /\ aggregate = NoAggregate
    /\ task = NoTask

\* what composite scoring and the ranking queries never touch, the clock
\* apart
scoringOthers ==
    <<ingestion_logs, stocks, fundamentals, news, news_stocks, worker,
      started, prev, processed, lastQuery, outage, outages, sentimentVars,
      pureVars>>

\* compute_composite_score, lines 63-65: the snapshot of a stock with the
\* latest data_date, None when the stock has no snapshot
latest_fundamental(c, rows) ==
    LET own == SelectSeq(rows, LAMBDA f : f.stock = c)
    IN  IF own = <<>> THEN None
        ELSE Some(CHOOSE f \in {own[i] : i \in DOMAIN own} :
                     \A i \in DOMAIN own : own[i].data_date <= f.data_date)

\* a variant of recent_scores that reads the rows of every stock
recent_of_all_stocks(c, scores, utcnow) ==
    SelectSeq(scores, LAMBDA o : o.created_at >= utcnow - days)

\* a variant of score_0_100 without the shift of the mean by one
score_unshifted(total, n) == RoundHalfEven(100 * total, n)

\* aggregate_sentiment_score, lines 241-247: the rows of a stock created at
\* or after the cut-off, in the order of the table
recent_scores(c, scores, utcnow) ==
    LET cutoff_date == utcnow - days
    IN  SelectSeq(scores, LAMBDA o : /\ o.stock_id = c
                                     /\ o.created_at >= cutoff_date)

\* aggregate_sentiment_score, lines 266-270: (avg_score + 1) * 50 rounded to
\* two places, in hundredths of a point, for n scores whose sum is total
\* hundredths
score_0_100(total, n) == RoundHalfEven(50 * (total + 100 * n), n)

\* the number of rows with a sentiment_label
label_count(rows, label) ==
    Len(SelectSeq(rows, LAMBDA o : o.sentiment_label = label))

\* aggregate_sentiment_score, lines 259-281: the mean of the rows read in
\* thousandths, its 0-100 form and the counts
summary(recent) ==
    LET total == SumOver([i \in DOMAIN recent |-> recent[i].sentiment_score],
                         Len(recent))
    IN  [average_score |-> RoundHalfEven(10 * total, Len(recent)),
         score_0_100 |-> score_0_100(total, Len(recent)),
         count |-> Len(recent),
         positive_count |-> label_count(recent, "positive"),
         negative_count |-> label_count(recent, "negative"),
         neutral_count |-> label_count(recent, "neutral"),
         period_days |-> days]

\* a variant of aggregate_sentiment_score without the test for no rows: the
\* mean of nothing divides by zero
aggregate_dividing(c, scores, utcnow) ==
    IF recent_scores(c, scores, utcnow) = <<>>
    THEN [raised |-> "ZeroDivisionError"]
    ELSE summary(recent_scores(c, scores, utcnow))

\* aggregate_sentiment_score: the summary of the rows of a stock read, the
\* neutral answer when no row was read
aggregate_sentiment_score(c, scores, utcnow) ==
    IF recent_scores(c, scores, utcnow) = <<>>
    THEN [average_score |-> 0, score_0_100 |-> 50 * 100, count |-> 0,
          positive_count |-> 0, negative_count |-> 0, neutral_count |-> 0]
    ELSE summary(recent_scores(c, scores, utcnow))

\* a variant of weighted_composite that ignores the weights
plain_mean(cfg, fundamental_score, sentiment_score) ==
    RoundHalfEven(fundamental_score + sentiment_score, 2)

\* compute_composite_score, lines 84-87 and 118: the weighted sum, rounded
\* to hundredths
weighted_composite(cfg, fundamental_score, sentiment_score) ==
    RoundHalfEven(cfg.FUNDAMENTAL_WEIGHT * fundamental_score
                     + cfg.SENTIMENT_WEIGHT * sentiment_score,
                  1000)

\* a variant of compute_composite_score that scores a stock without a
\* snapshot as if every metric were absent
compute_without_snapshot(stock_id, cstocks, rows, scores, cfg, utcnow, score_date) ==
    IF stock_id \notin cstocks THEN None
    ELSE LET latest == latest_fundamental(stock_id, rows)
             fundamental_score ==
                 compute_fundamental_score(
                     IF latest = None THEN Weak ELSE latest[1]).total_score
             sentiment_score ==
                 aggregate_sentiment_score(stock_id, scores,
                                           utcnow).score_0_100
         IN  Some([stock_id |-> stock_id,
                   fundamental_score |-> fundamental_score,
                   sentiment_score |-> sentiment_score,
                   composite_score |->
                       weighted_composite(cfg, fundamental_score,
                                          sentiment_score),
                   score_date |-> score_date])

\* compute_composite_score: None when the stock or its snapshot is missing,
\* else the score data
compute_composite_score(stock_id, cstocks, rows, scores, cfg, utcnow, score_date) ==
    IF stock_id \notin cstocks THEN None
    ELSE LET latest == latest_fundamental(stock_id, rows)
         IN  IF latest = None THEN None
             ELSE LET fundamental_score ==
                          compute_fundamental_score(latest[1]).total_score
                      sentiment_score ==
                          aggregate_sentiment_score(stock_id, scores,
                                                    utcnow).score_0_100
                  IN  Some([stock_id |-> stock_id,
                            fundamental_score |-> fundamental_score,
                            sentiment_score |-> sentiment_score,
                            composite_score |->
                                weighted_composite(cfg, fundamental_score,
                                                   sentiment_score),
                            score_date |-> score_date])

\* score_all_stocks, line 143: the active stocks
ActiveStocks(cstocks, off) ==
    SelectSeq(Listed, LAMBDA c : c \in cstocks /\ c \notin off)

\* a variant of InsertByScore that puts x in front of the elements with its
\* own key, as a sort that is not stable may
InsertBeforeEqual(sorted, x) ==
    LET k == Cardinality({i \in DOMAIN sorted :
                             sorted[i].composite_score > x.composite_score})
    IN  SubSeq(sorted, 1, k) \o <<x>> \o SubSeq(sorted, k + 1, Len(sorted))

\* one step of list.sort(key=composite_score, reverse=True): x goes behind
\* every element whose key is at least its own, so equal keys keep their
\* order
InsertByScore(sorted, x) ==
    LET k == Cardinality({i \in DOMAIN sorted :
                             sorted[i].composite_score >= x.composite_score})
    IN  SubSeq(sorted, 1, k) \o <<x>> \o SubSeq(sorted, k + 1, Len(sorted))

RECURSIVE SortByScore(_, _)
\* score_all_stocks, line 167: the first n scores, sorted
SortByScore(scores, n) ==
    IF n = 0 THEN <<>>
    ELSE InsertByScore(SortByScore(scores, n - 1), scores[n])

\* a variant of AssignRanks that counts from 0, as enumerate without
\* start=1 would
RanksFromZero(sorted) ==
    [i \in DOMAIN sorted |-> sorted[i] @@ [rank |-> i - 1]]

\* score_all_stocks, lines 170-171: ranks by position, from 1
AssignRanks(sorted) ==
    [i \in DOMAIN sorted |-> sorted[i] @@ [rank |-> i]]

\* score_all_stocks, lines 178-186: the row of a score
CompositeScore(score_data, score_date) ==
    [stock_id |-> score_data.stock_id,
     fundamental_score |-> score_data.fundamental_score,
     sentiment_score |-> score_data.sentiment_score,
     composite_score |-> score_data.composite_score,
     rank |-> score_data.rank,
     score_date |-> score_date]

\* the scorer is not inside score_all_stocks
Resting == scorer.pc \in {"idle", "done", "raised"}

\* no query has been observed yet: a behaviour of the model ends with the
\* queries it observes
Unobserved == lastTop = NoTop /\ lastScore = NoScore

\* CompositeScorer.__init__, lines 34-35: the weights the scorer took from
\* the settings
Weights(sc) ==
    [FUNDAMENTAL_WEIGHT |-> sc.fundamental_weight,
     SENTIMENT_WEIGHT |-> sc.sentiment_weight]

\* the task compute_all_scores makes a CompositeScorer, which takes the
\* weights from the settings of the imported core.config, and calls
\* score_all_stocks: the clock is read and the active stocks are queried.  The schedule starts a batch later
\* than every batch before it.
StartScoring ==
    /\ Resting
    /\ Unobserved
    /\ settings.status = "ok"
    /\ scorer.runs < MaxBatches
    /\ \A i \in DOMAIN composite_scores : composite_scores[i].score_date < now
    /\ scorer' = [IdleScorer EXCEPT
          !.pc = "loop", !.runs = scorer.runs + 1, !.score_date = now,
          !.todo = ActiveStocks(stocks, inactive),
          !.active = ActiveStocks(stocks, inactive),
          !.stored = Len(composite_scores), !.faults = scorer.faults,
          !.fundamental_weight = settings.FUNDAMENTAL_WEIGHT,
          !.sentiment_weight = settings.SENTIMENT_WEIGHT]
    /\ UNCHANGED <<scoringOthers, now, inactive, composite_scores, lastTop,
                   lastScore>>

\* score_all_stocks, lines 148-160: the next stock is scored or skipped
ScoreStock ==
    LET c == Head(scorer.todo)
        score_data == compute_composite_score(c, stocks, fundamentals,
                          sentiment_scores, Weights(scorer), now,
                          scorer.score_date)
    IN  /\ scorer.pc = "loop"
        /\ scorer.todo # <<>>
        /\ ~scorer.aborted
        /\ scorer' =
              IF score_data # None
              THEN [scorer EXCEPT !.todo = Tail(@),
                                  !.scores = Append(@, score_data[1]),
                                  !.scored = @ + 1]
              ELSE [scorer EXCEPT !.todo = Tail(@), !.skipped = @ + 1]
        /\ UNCHANGED <<scoringOthers, now, inactive, composite_scores,
                       lastTop, lastScore>>

\* score_all_stocks, lines 162-164: scoring the next stock raises and the
\* error is counted.  kind "compute": the exception does not come from the
\* store.  kind "store": a query raises; nothing rolls the session back, so
\* its transaction stays aborted and every later statement raises too.
ScoreRaises(kind) ==
    /\ scorer.pc = "loop"
    /\ scorer.todo # <<>>
    /\ IF scorer.aborted
       THEN kind = "store"
       ELSE scorer.faults < MaxFaults
    /\ scorer' = [scorer EXCEPT
          !.todo = Tail(@), !.errors = @ + 1,
          !.raised = Append(@, [stock_id |-> Head(scorer.todo),
                                cause |-> IF scorer.aborted
                                          THEN "aborted" ELSE kind]),
          !.aborted = @ \/ kind = "store",
          !.faults = IF scorer.aborted THEN @ ELSE @ + 1]
    /\ UNCHANGED <<scoringOthers, now, inactive, composite_scores, lastTop,
                   lastScore>>

\* the scores of the run, sorted and ranked
Ranked(sc) == AssignRanks(SortByScore(sc.scores, Len(sc.scores)))

\* score_all_stocks, lines 167-200: the scores are sorted, ranked, added to
\* the session and committed at once
StoreScores ==
    /\ scorer.pc = "loop"
    /\ scorer.todo = <<>>
    /\ ~(scorer.aborted /\ scorer.scores # <<>>)
    /\ composite_scores' = composite_scores \o
          [i \in DOMAIN scorer.scores |->
              CompositeScore(Ranked(scorer)[i], scorer.score_date)]
    /\ scorer' = [scorer EXCEPT !.pc = "done", !.scores = Ranked(scorer)]
    /\ UNCHANGED <<scoringOthers, now, inactive, lastTop, lastScore>>

\* a variant of StoreRaises in which each score was committed when it was
\* added, so that the first row is in the store when the failure comes
StoreRaisesAfterFirst ==
    /\ scorer.pc = "loop"
    /\ scorer.todo = <<>>
    /\ scorer.scores # <<>>
    /\ scorer.aborted \/ scorer.faults < MaxFaults
    /\ composite_scores' = Append(composite_scores,
          CompositeScore(Ranked(scorer)[1], scorer.score_date))
    /\ scorer' = [scorer EXCEPT
          !.pc = "raised", !.scores = Ranked(scorer),
          !.faults = IF scorer.aborted THEN @ ELSE @ + 1]
    /\ UNCHANGED <<scoringOthers, now, inactive, lastTop, lastScore>>

\* score_all_stocks, line 193: the commit raises (the transaction is
\* aborted, or the store fails now); get_db_context rolls back and the task
\* ends with the exception
StoreRaises ==
    /\ scorer.pc = "loop"
    /\ scorer.todo = <<>>
    /\ scorer.scores # <<>>
    /\ scorer.aborted \/ scorer.faults < MaxFaults
    /\ scorer' = [scorer EXCEPT
          !.pc = "raised", !.scores = Ranked(scorer),
          !.faults = IF scorer.aborted THEN @ ELSE @ + 1]
    /\ UNCHANGED <<scoringOthers, now, inactive, composite_scores, lastTop,
                   lastScore>>

\* a day passes between two batches
DayPasses ==
    /\ Resting
    /\ Unobserved
    /\ now < days + MaxBatches
    /\ now' = now + 1
    /\ UNCHANGED <<scoringOthers, scoringVars>>

\* an operator sets is_active of a stock to False between two batches
Deactivate(c) ==
    /\ Resting
    /\ Unobserved
    /\ Cardinality(inactive) < MaxInactive
    /\ c \in stocks \ inactive
    /\ inactive' = inactive \cup {c}
    /\ UNCHANGED <<scoringOthers, now, composite_scores, scorer, lastTop,
                   lastScore>>

\* the task compute_score_for_stock calls compute_composite_score for one
\* id, with the default score_date
ScoreOne(stock_id) ==
    /\ Resting
    /\ settings.status = "ok"
    /\ lastTop = NoTop
    /\ lastScore' = [called |-> TRUE, stock_id |-> stock_id,
                     result |-> compute_composite_score(stock_id, stocks,
                                    fundamentals, sentiment_scores, settings,
                                    now, now)]
    /\ UNCHANGED <<scoringOthers, now, inactive, composite_scores, scorer,
                   lastTop>>

(***************************************************************************)
(* The ranking queries: CompositeScorer.get_top_stocks behind              *)
(* /rankings/composite, and get_fundamental_rankings and                   *)
(* get_sentiment_rankings of api/v1/screening.                             *)
(***************************************************************************)
\* ORDER BY ... DESC: the rows by their keys descending, rows of equal
\* keys in the order they have
SortedDesc(rows, keys) ==
    LET n == Len(rows)
        pos(i) == 1 + Cardinality({j \in 1..n :
                         \/ keys[j] > keys[i]
                         \/ keys[j] = keys[i] /\ j < i})
    IN  [k \in 1..n |-> rows[CHOOSE i \in 1..n : pos(i) = k]]

\* LIMIT
Limit(rows, limit) == SubSeq(rows, 1, Min(limit, Len(rows)))

\* get_top_stocks, lines 219-224: ORDER BY score_date DESC, rank
ByDateThenRank(rows) ==
    LET by_rank == SortedDesc(rows, [i \in DOMAIN rows |-> 0 - rows[i].rank])
    IN  SortedDesc(by_rank, [i \in DOMAIN by_rank |-> by_rank[i].score_date])

\* get_top_stocks: the scores of active stocks, newest batch first and by
\* rank within a batch, cut at limit; each result carries the stored rank.
\* min_composite_score is None, as in the one call of the function.
get_top_stocks(rows, off, limit) ==
    LET scores == Limit(ByDateThenRank(SelectSeq(rows,
                            LAMBDA r : r.stock_id \notin off)),
                        limit)
    IN  [i \in DOMAIN scores |-> [rank |-> scores[i].rank, score |-> scores[i]]]

\* screening, lines 184-192 and 231-239: DISTINCT ON (stock_id) ... ORDER BY
\* stock_id, score_date DESC: for each stock the score with the latest
\* score_date
latest_scores(rows) ==
    LET has(c) == \E i \in DOMAIN rows : rows[i].stock_id = c
        last(c) == CHOOSE i \in DOMAIN rows :
                      /\ rows[i].stock_id = c
                      /\ \A j \in DOMAIN rows :
                            rows[j].stock_id = c =>
                               \/ rows[j].score_date < rows[i].score_date
                               \/ rows[j].score_date = rows[i].score_date
                                  /\ j >= i
        with == SelectSeq(Listed, has)
    IN  [k \in DOMAIN with |-> rows[last(with[k])]]

\* get_fundamental_rankings, get_sentiment_rankings: the latest score of
\* every stock, by the field descending, cut at limit; the rank is the
\* position in the answer
rankings_by(field, rows, limit) ==
    LET latest == latest_scores(rows)
        results == Limit(SortedDesc(latest,
                             [i \in DOMAIN latest |-> latest[i][field]]),
                         limit)
    IN  [i \in DOMAIN results |-> [rank |-> i, score |-> results[i]]]

\* the latest score_date of the store, 0 when it is empty
MostRecent(rows) ==
    IF rows = <<>> THEN 0
    ELSE CHOOSE d \in {rows[i].score_date : i \in DOMAIN rows} :
             \A i \in DOMAIN rows : rows[i].score_date <= d

\* what a ranking query saw and what it returned
Answer(kind, limit, rows) ==
    [kind |-> kind, limit |-> limit, rows |-> rows, off |-> inactive,
     latest |-> MostRecent(composite_scores)]

\* GET /rankings/composite?limit=...
TopStocks(limit) ==
    /\ Resting
    /\ lastScore = NoScore
    /\ lastTop' = Answer("composite_score", limit,
                         get_top_stocks(composite_scores, inactive, limit))
    /\ UNCHANGED <<scoringOthers, now, inactive, composite_scores, scorer,
                   lastScore>>

\* GET /rankings/fundamental?limit=... and GET /rankings/sentiment?limit=...
Rankings(field, limit) ==
    /\ Resting
    /\ lastScore = NoScore
    /\ lastTop' = Answer(field, limit,
                         rankings_by(field, composite_scores, limit))
    /\ UNCHANGED <<scoringOthers, now, inactive, composite_scores, scorer,
                   lastScore>>

ScoreNext ==
    \/ StartScoring
    \/ ScoreStock
    \/ \E kind \in {"compute", "store"} : ScoreRaises(kind)
    \/ StoreScores
    \/ StoreRaises
    \/ DayPasses
    \/ \E c \in stocks : Deactivate(c)
    \/ \E stock_id \in stocks \cup {Unlisted} : ScoreOne(stock_id)
    \/ \E limit \in 1..MaxLimit : TopStocks(limit)
    \/ \E field \in {"fundamental_score", "sentiment_score"},
          limit \in 1..MaxLimit : Rankings(field, limit)

ScoreSpec == ScoreInit /\ [][ScoreNext]_vars

(***************************************************************************)
(* Sentiment aggregation on its own: observations are stored while time    *)
(* passes, and aggregate_sentiment_score is called for a stock.  The clock *)
(* is in days.  created_at is the utcnow() of the process that stores the  *)
(* row (models/database.py, default=datetime.utcnow), which can be ahead   *)
(* of the clock of the process that aggregates.                            *)
(***************************************************************************)
MaxObservations == 3    \* rows of sentiment_scores in one behaviour
MaxAhead == 1           \* days the clock of a storing process can be ahead

\* analyze_text, lines 95-105: a label and the score p_positive - p_negative
\* in hundredths, as the classifier can return them
Classified ==
    {<<"positive", 100>>, <<"neutral", 25>>, <<"negative", 0 - 100>>}

\* what storing, waiting and aggregating never touch
aggOthers ==
    <<ingestion_logs, stocks, fundamentals, news, news_stocks, worker,
      started, prev, processed, lastQuery, outage, outages, analyzer,
      scoringVars, settings, fscore, task>>

\* analyze_news_article, lines 140-160: the observation of a stock is stored
\* with the clock of the storing process as created_at
StoreObservation(c, classified, ahead) ==
    /\ ~aggregate.called
    /\ Len(sentiment_scores) < MaxObservations
    /\ sentiment_scores' =
          Append(sentiment_scores,
                 Observation("u/1", c, classified[1], classified[2],
                             now + ahead))
    /\ UNCHANGED <<aggOthers, now, aggregate>>

\* time passes: a day, or the whole window after the first day
Elapse ==
    /\ ~aggregate.called
    /\ now < days + 2
    /\ now' = IF now = 1 THEN now + days ELSE now + 1
    /\ UNCHANGED <<aggOthers, sentiment_scores, aggregate>>

\* a caller aggregates the sentiment of a stock, once in a behaviour
Aggregate(stock_id) ==
    /\ ~aggregate.called
    /\ aggregate' = [called |-> TRUE, stock_id |-> stock_id, utcnow |-> now,
                     result |-> aggregate_sentiment_score(stock_id,
                                                          sentiment_scores,
                                                          now)]
    /\ UNCHANGED <<aggOthers, sentiment_scores, now>>

AggNext ==
    \/ \E c \in Securities, classified \in Classified, ahead \in 0..MaxAhead :
          StoreObservation(c, classified, ahead)
    \/ Elapse
    \/ \E stock_id \in Securities : Aggregate(stock_id)

AggSpec == Init /\ [][AggNext]_vars

(***************************************************************************)
(* Configuration: the Settings object core.config builds when it is        *)
(* imported, from the environment and the defaults.  Weights are in        *)
(* thousandths.                                                            *)
(***************************************************************************)
tolerance == 10     \* abs(total - 1.0) > 0.01, in thousandths

\* core.config has not been imported yet
Unset == [status |-> "unset"]

\* what the environment (or .env) gives for a weight: nothing, or a number
\* from -0.005 to 1.005 in steps of 0.005
EnvWeights == {None} \cup {Some(5 * k - 5) : k \in 0..202}

\* Field(default=..., ge=0, le=1): the value of the field, the default when
\* the environment has none, and whether it passes the bounds
FieldValue(given, default) == IF given = None THEN default ELSE given[1]
WithinBounds(v) == v >= 0 /\ v <= 1000

Abs(x) == IF x < 0 THEN 0 - x ELSE x

\* weights_must_sum_to_one: the outcomes of abs(total - 1.0) > 0.01 for the
\* sentiment weight v, given the validated fields so far; TRUE stands for
\* raising.  At a distance of exactly 0.01 the floating-point sum decides,
\* so both outcomes are possible.
weights_must_sum_to_one(v, data) ==
    LET fundamental_weight ==
            IF "FUNDAMENTAL_WEIGHT" \in DOMAIN data
            THEN data.FUNDAMENTAL_WEIGHT ELSE 600
        total == fundamental_weight + v
    IN  IF Abs(total - 1000) > tolerance THEN {TRUE}
        ELSE IF Abs(total - 1000) < tolerance THEN {FALSE}
        ELSE {TRUE, FALSE}

\* a variant of Constructed that does not validate a default: the check of
\* the sum is skipped when the environment has no SENTIMENT_WEIGHT
ConstructedDefaultUnchecked(fw, sw) ==
    LET fv == FieldValue(fw, 600)
        sv == FieldValue(sw, 400)
        data == IF WithinBounds(fv) THEN [FUNDAMENTAL_WEIGHT |-> fv]
                ELSE <<>>
        from == [FUNDAMENTAL_WEIGHT |-> fw, SENTIMENT_WEIGHT |-> sw]
        failed == [status |-> "error", env |-> from]
    IN  IF ~WithinBounds(sv) THEN {failed}
        ELSE {IF (sw # None /\ raises) \/ ~WithinBounds(fv) THEN failed
              ELSE [status |-> "ok", env |-> from,
                    FUNDAMENTAL_WEIGHT |-> fv, SENTIMENT_WEIGHT |-> sv] :
              raises \in weights_must_sum_to_one(sv, data)}

\* Settings(): the objects the construction can give for the two weights of
\* the environment; status "error" stands for the ValidationError that
\* stops the import
Constructed(fw, sw) ==
    LET fv == FieldValue(fw, 600)
        sv == FieldValue(sw, 400)
        data == IF WithinBounds(fv) THEN [FUNDAMENTAL_WEIGHT |-> fv]
                ELSE <<>>
        from == [FUNDAMENTAL_WEIGHT |-> fw, SENTIMENT_WEIGHT |-> sw]
        failed == [status |-> "error", env |-> from]
    IN  IF ~WithinBounds(sv) THEN {failed}
        ELSE {IF raises \/ ~WithinBounds(fv) THEN failed
              ELSE [status |-> "ok", env |-> from,
                    FUNDAMENTAL_WEIGHT |-> fv, SENTIMENT_WEIGHT |-> sv] :
              raises \in weights_must_sum_to_one(sv, data)}

\* the process starts: core.config is imported and line 176 builds the
\* settings
Construct ==
    /\ settings = Unset
    /\ \E fw \in EnvWeights, sw \in EnvWeights :
          settings' \in Constructed(fw, sw)
    /\ UNCHANGED <<ingestVars, sentimentVars, scoringVars, fscore, aggregate,
                   task>>

\* nothing has run and core.config is not imported
ConfigInit ==
    /\ IngestIdle
    /\ SentimentIdle
    /\ ScoringIdle
    /\ settings = Unset
    /\ fscore = NoFScore
    /\ aggregate = NoAggregate
    /\ task = NoTask

ConfigNext ==
    \/ Construct
    \/ StartScoring

ConfigSpec == ConfigInit /\ [][ConfigNext]_vars

(***************************************************************************)
(* The task ingest_fundamental_for_symbol: it replaces the tracked         *)
(* universe of the shared settings object by one symbol, runs the          *)
(* fundamental ingestor on worker w1 and puts the universe back.  Other    *)
(* jobs of the same process follow it.                                     *)
(*   pc: idle -> run -> returned or raised                                 *)
(***************************************************************************)
\* what the task never touches itself
taskOthers == <<ingestVars, sentimentVars, scoringVars, fscore, aggregate>>

\* ingest_fundamental_for_symbol, lines 100-103: the tracked universe is
\* kept in original_stocks and replaced by [symbol]
OverrideTracked(symbol) ==
    /\ task.pc = "idle"
    /\ worker["w1"].pc = "idle"
    /\ task' = [pc |-> "run", symbol |-> symbol,
                original_stocks |-> settings.TRACKED_STOCKS]
    /\ settings' = [settings EXCEPT !.TRACKED_STOCKS = <<symbol>>]
    /\ UNCHANGED taskOthers

\* lines 105-106: the ingestor is built and its run() is called
TaskRuns ==
    /\ task.pc = "run"
    /\ worker["w1"].pc = "idle"
    /\ StartRun("w1", "fundamental")

\* lines 108-111: run() returned, the universe is put back and the result
\* is returned
RestoreTracked ==
    /\ task.pc = "run"
    /\ worker["w1"].pc = "done"
    /\ worker["w1"].raised = "none"
    /\ settings' = [settings EXCEPT !.TRACKED_STOCKS = task.original_stocks]
    /\ task' = [task EXCEPT !.pc = "returned"]
    /\ UNCHANGED taskOthers

\* lines 113-115: run() raised after its last attempt; the except clause
\* logs the error and raises it again
TaskRaises ==
    /\ task.pc = "run"
    /\ worker["w1"].pc = "done"
    /\ worker["w1"].raised # "none"
    /\ task' = [task EXCEPT !.pc = "raised"]
    /\ UNCHANGED <<taskOthers, settings>>

\* ingest_fundamental_data, lines 16-26: a later job of the same process
\* runs the fundamental ingestor over settings.TRACKED_STOCKS
LaterJob ==
    /\ task.pc \in {"returned", "raised"}
    /\ StartRun("w1", "fundamental")

\* the steps of run() for the fundamental ingestor, whose fetch_data
\* catches what the source raises (fundamental_ingestor.py, lines 38-49)
FundamentalStep(p) ==
    \/ FetchFundamental(p)
    \/ CheckIngested(p)
    \/ CheckRaises(p)
    \/ ProcessData(p)
    \/ CommitData(p)
    \/ CommitRaises(p)
    \/ AuditSuccess(p)
    \/ AuditRaises(p)
    \/ ExceptLogged(p)
    \/ ExceptLogRaises(p)
    \/ Retry(p)
    \/ GiveUp(p)

SymbolNext ==
    \/ \E symbol \in Securities : OverrideTracked(symbol)
    \/ TaskRuns
    \/ RestoreTracked
    \/ TaskRaises
    \/ LaterJob
    \/ FundamentalStep("w1")
    \/ Environment

SymbolSpec == Init /\ [][SymbolNext]_vars

(***************************************************************************)
(* Properties.                                                             *)
(***************************************************************************)
\* the "success" rows of the audit log for a type and a fingerprint
SuccessRows(itype, data_hash) ==
    {i \in DOMAIN ingestion_logs :
        ingestion_logs[i] = IngestionLog(itype, data_hash, "success")}

\* worker p's run() call has ended, by returning or by raising
Ended(p) == worker[p].pc = "done"
Returned(p) == Ended(p) /\ worker[p].raised = "none"

\* worker p's run() call returned and so did the call before it, and both
\* fetched the same non-empty bundle for the same type
SameBundleTwice(p) ==
    /\ Returned(p)
    /\ prev[p].status \in {"success", "skipped"}
    /\ prev[p].itype = worker[p].itype
    /\ prev[p].data = worker[p].data
    /\ worker[p].data # <<>>

\* C1: when two run() calls of one type follow one another, both return and
\* both fetched the same non-empty bundle, the second returns "skipped" and
\* the audit log holds exactly one "success" row for that type and
\* fingerprint.
C1_SecondRunSkipped ==
    SameBundleTwice("w1") =>
        /\ worker["w1"].status = "skipped"
        /\ Cardinality(SuccessRows(worker["w1"].itype,
                                   compute_data_hash(worker["w1"].data))) = 1

\* the first call ingested the bundle, the second fetched it again
C1_Witness ==
    /\ SameBundleTwice("w1")
    /\ prev["w1"].status = "success"
    /\ worker["w1"].status = "skipped"

\* the audit rows appended since worker p's run() call began
RunRows(p) ==
    SubSeq(ingestion_logs, worker[p].logBase + 1, Len(ingestion_logs))

CountStatus(rows, status) ==
    Cardinality({i \in DOMAIN rows : rows[i].status = status})

\* the attempts of worker p's ended run() call that failed
FailedAttempts(p) ==
    IF worker[p].raised # "none" THEN max_retries + 1 ELSE worker[p].attempt

C2_SkippedWitness ==
    /\ Ended("w1")
    /\ worker["w1"].status = "skipped"
    /\ RunRows("w1") = <<>>

\* two workers run the same type on the same non-empty bundle at once
Overlapping ==
    /\ \A p \in Procs : worker[p].pc \notin {"idle", "fetch"}
    /\ worker["w1"].itype = worker["w2"].itype
    /\ worker["w1"].data = worker["w2"].data
    /\ worker["w1"].data # <<>>

\* C3, as stated: whenever two overlapping run() calls of one type have
\* fetched the same bundle, the audit log holds at most one "success" row
\* for that type and fingerprint, and at most one of the two calls has
\* invoked process_data on the bundle.
C3_OneSuccessPerBundle ==
    Overlapping =>
        /\ Cardinality(SuccessRows(worker["w1"].itype,
                                   compute_data_hash(worker["w1"].data))) <= 1
        /\ ~(worker["w1"].procCalled /\ worker["w2"].procCalled)

\* C4: a direct call is_already_ingested(fingerprint) on an ingestor of
\* type t answers true exactly when the audit log holds a row of type t
\* with that fingerprint and status "success"; rows that are "failed", of
\* another type or of another fingerprint do not count.
C4_IngestedIffSuccessRow ==
    lastQuery.asked =>
        (lastQuery.answer <=>
            \E i \in DOMAIN ingestion_logs :
                /\ ingestion_logs[i].ingestion_type = lastQuery.itype
                /\ ingestion_logs[i].data_hash = lastQuery.data_hash
                /\ ingestion_logs[i].status = "success")

\* the call answered false although the log holds a "failed" row of the
\* asked type and fingerprint and a "success" row of the other type
C4_Witness ==
    /\ lastQuery.asked
    /\ ~lastQuery.answer
    /\ \E i \in DOMAIN ingestion_logs :
          /\ ingestion_logs[i].ingestion_type = lastQuery.itype
          /\ ingestion_logs[i].data_hash = lastQuery.data_hash
          /\ ingestion_logs[i].status = "failed"
    /\ \E i \in DOMAIN ingestion_logs :
          /\ ingestion_logs[i].ingestion_type # lastQuery.itype
          /\ ingestion_logs[i].status = "success"

\* the call answered true
C4_WitnessTrue == lastQuery.asked /\ lastQuery.answer

\* C5: an attempt of run() that finds the fetched bundle's fingerprint
\* already ingested returns "skipped" without having invoked process_data
\* and without having committed any stock, fundamental, news or
\* news-stock row.
C5_SkippedTouchesNothing ==
    (Ended("w1") /\ worker["w1"].status = "skipped") =>
        /\ ~worker["w1"].procCalled
        /\ ~worker["w1"].wrote
        /\ worker["w1"].session = EmptySession
        /\ worker["w1"].metrics = ZeroMetrics(0)

\* a run returned "skipped" while the tables hold the rows of an earlier run
C5_Witness ==
    /\ Ended("w1")
    /\ worker["w1"].status = "skipped"
    /\ Len(fundamentals) + Len(news) > 0
    /\ processed = <<worker["w1"].itype, worker["w1"].data>>

\* the waits before the first, second and third retry
Backoff == <<2, 4, 8>>

Running(p) == worker[p].pc \notin {"idle", "done"}

C6_State ==
    LET w == worker["w1"]
    IN  /\ w.attempt <= max_retries
        /\ w.delays = SubSeq(Backoff, 1, w.attempt)
        /\ w.status # "none" => w.pc = "done"

C6_Step ==
    LET w == worker["w1"]
        v == worker'["w1"]
    IN  /\ (w.pc = "wrapper" /\ w.attempt < max_retries /\ v # w) =>
              /\ v.pc = "fetch"
              /\ v.attempt = w.attempt + 1
        /\ (w.pc = "done" /\ v # w) =>
              /\ v.pc = "fetch"
              /\ v.attempt = 0
              /\ started' = started + 1

\* C6: a failed attempt of run() is followed by a new attempt of the whole
\* run(); a call makes at most max_retries + 1 = 4 attempts; the waits
\* before the retries are 2, 4, 8 seconds; an attempt that returns ends the
\* call; and every call ends.
C6_RetryWithBackoff ==
    /\ []C6_State
    /\ [][C6_Step]_vars
    /\ (Running("w1") ~> Ended("w1"))

\* a call that succeeded on its fourth attempt, after waits of 2, 4, 8
C6_Witness ==
    /\ Ended("w1")
    /\ worker["w1"].status = "success"
    /\ worker["w1"].attempt = max_retries
    /\ worker["w1"].delays = Backoff

\* the exceptions that can escape run()'s try block
TryErrors ==
    {"fetch_data", "is_already_ingested", "process_data",
     "create_ingestion_log"}

C7_Step ==
    LET w == worker["w1"]
        v == worker'["w1"]
    IN  /\ (w.pc # "except" /\ v.pc = "except") => v.error \in TryErrors
        /\ (w.pc = "except" /\ v # w) =>
              /\ v.pc = "wrapper"
              /\ v.error = w.error
              /\ ingestion_logs' =
                    IF outage = "store" THEN ingestion_logs
                    ELSE Append(ingestion_logs,
                             IngestionLog(w.itype, ErrorHash, "failed"))
        /\ (w.pc = "wrapper" /\ w.attempt = max_retries /\ v # w) =>
              /\ v.pc = "done"
              /\ v.status = "none"
              /\ v.raised = w.error

\* C7: when the last allowed attempt of run() fails, the error of that
\* attempt is raised to the caller; the handler appends a "failed" row when
\* the store accepts it, and when that write raises the log is left as it
\* is and the original error is still the one raised.
C7_OriginalErrorPropagates == [][C7_Step]_vars

\* a call raised the error of its last attempt after a "failed" row was
\* refused
C7_Witness ==
    /\ Ended("w1")
    /\ worker["w1"].raised \in TryErrors
    /\ worker["w1"].raised = worker["w1"].error
    /\ worker["w1"].attempt = max_retries
    /\ worker["w1"].lost > 0

C8_Step ==
    LET w == worker["w1"]
        v == worker'["w1"]
    IN  (/\ w.pc = "commit"
         /\ v.pc = "audit"
         /\ processed = <<w.itype, w.data>>) => db' = db

\* C8, as stated: when process_data is invoked again on the bundle it
\* committed last, for either ingestor, its commit leaves the stock,
\* fundamental, news and news-stock rows as they were.
C8_ReinvocationInsertsNothing == [][C8_Step]_vars

\* what the source reported: the bundle without the time of the fetch
SourceData(data) ==
    [i \in DOMAIN data |->
        [symbol |-> data[i].symbol, pe_ratio |-> data[i].pe_ratio]]

\* C9, as stated: when two fundamentals runs follow one another, both
\* return, and the source reported the same ratios for the same symbols to
\* both, the second returns "skipped" and commits no fundamental row.
C9_UnchangedDataSkipped ==
    LET w == worker["w1"]
    IN  (/\ Returned("w1")
         /\ prev["w1"].status \in {"success", "skipped"}
         /\ prev["w1"].itype = "fundamental"
         /\ w.itype = "fundamental"
         /\ w.data # <<>>
         /\ prev["w1"].data # <<>>
         /\ SourceData(prev["w1"].data) = SourceData(w.data))
        => (w.status = "skipped" /\ ~w.wrote)

\* SHA-256 of URL concatenated with title, collision-free
Fingerprint(x) == x.url \o x.title

Distinct(rows) ==
    \A i, j \in DOMAIN rows :
        i # j => Fingerprint(rows[i]) # Fingerprint(rows[j])

\* the articles of worker p's bundle whose fingerprint the news table holds
KnownArticles(p) ==
    {i \in DOMAIN worker[p].data :
        \E j \in DOMAIN news :
            Fingerprint(news[j]) = Fingerprint(worker[p].data[i])}

\* C10: no two rows of the news table share a fingerprint, the fingerprint
\* stored with a row is that of its URL followed by its title, and when
\* process_data of the news ingestor has gone through a bundle, every
\* article whose fingerprint the table already held is counted as skipped
\* and is not among the rows to insert, which are distinct from one
\* another and from the table's.
C10_NoDuplicateNews ==
    /\ Distinct(news)
    /\ \A i \in DOMAIN news : news[i].content_hash = Fingerprint(news[i])
    /\ LET w == worker["w1"]
       IN  (w.pc = "commit" /\ w.itype = "news") =>
              /\ w.metrics.skipped >= Cardinality(KnownArticles("w1"))
              /\ Distinct(news \o w.session.news)
              /\ w.metrics.inserted = Len(w.session.news)
              /\ w.metrics.inserted + w.metrics.skipped = w.metrics.fetched

\* the bundle holds an article whose fingerprint the table holds under
\* another URL, and it was skipped
C10_Witness ==
    /\ worker["w1"].pc = "commit"
    /\ worker["w1"].itype = "news"
    /\ worker["w1"].metrics.skipped > 0
    /\ \E i \in KnownArticles("w1") :
          \A j \in DOMAIN news : news[j].url # worker["w1"].data[i].url

\* C11, as stated: after any interleaving of analyze_pending_news calls,
\* the sentiment_scores table holds at most one row for each pair of a news
\* item and a stock.
C11_OneScorePerPair ==
    \A i, j \in DOMAIN sentiment_scores :
        (/\ sentiment_scores[i].news_id = sentiment_scores[j].news_id
         /\ sentiment_scores[i].stock_id = sentiment_scores[j].stock_id)
        => i = j

\* the stocks of a sequence that have no row in fundamentals
Snapshotless(cs) ==
    {i \in DOMAIN cs :
        ~\E k \in DOMAIN fundamentals : fundamentals[k].stock = cs[i]}

\* score_all_stocks has returned
ScoringReturned == scorer.pc = "done"

\* C12: when score_all_stocks returns after scoring N active securities of
\* which K have no fundamental snapshot and none raised, scored = N-K,
\* skipped = K, errors = 0, and the ranks of the N-K results are exactly
\* 1..(N-K), each used once.
C12_CountsAndRanks ==
    (ScoringReturned /\ scorer.raised = <<>>) =>
        LET N == Len(scorer.active)
            K == Cardinality(Snapshotless(scorer.active))
        IN  /\ scorer.scored = N - K
            /\ scorer.skipped = K
            /\ scorer.errors = 0
            /\ Len(scorer.scores) = N - K
            /\ {scorer.scores[i].rank : i \in DOMAIN scorer.scores} = 1..(N - K)

\* three active securities, one of them without a snapshot, are scored
C12_Witness ==
    /\ ScoringReturned
    /\ scorer.raised = <<>>
    /\ Len(scorer.active) = 3
    /\ Cardinality(Snapshotless(scorer.active)) = 1
    /\ scorer.scored = 2

\* the position of a stock in the sequence of the active stocks
IterationIndex(c) == CHOOSE k \in DOMAIN scorer.active : scorer.active[k] = c

\* C13: in the result of score_all_stocks a smaller rank never has a smaller
\* composite score, and two securities with equal composite scores are
\* ranked in the order in which the active securities were iterated.
C13_RanksFollowScores ==
    ScoringReturned =>
        \A i, j \in DOMAIN scorer.scores :
            LET a == scorer.scores[i]
                b == scorer.scores[j]
            IN  /\ a.rank < b.rank => a.composite_score >= b.composite_score
                /\ (/\ a.composite_score = b.composite_score
                    /\ IterationIndex(a.stock_id) < IterationIndex(b.stock_id))
                   => a.rank < b.rank

\* three results: the second security iterated has the highest score and
\* rank 1, the first and the third tie and follow in that order
C13_Witness ==
    /\ ScoringReturned
    /\ Len(scorer.scores) = 3
    /\ scorer.scores[1].stock_id = Listed[2]
    /\ scorer.scores[2].stock_id = Listed[1]
    /\ scorer.scores[3].stock_id = Listed[3]
    /\ scorer.scores[1].composite_score > scorer.scores[2].composite_score
    /\ scorer.scores[2].composite_score = scorer.scores[3].composite_score

\* the loop of score_all_stocks is over
LoopOver == scorer.pc \in {"done", "raised"}

\* the securities whose scoring raised of its own, not because an earlier
\* failure had aborted the transaction
OwnFailures ==
    {i \in DOMAIN scorer.raised : scorer.raised[i].cause # "aborted"}

\* the securities with a result in the run
ScoredStocks == {scorer.scores[i].stock_id : i \in DOMAIN scorer.scores}

\* C14, as stated: when scoring one security raises, that security is
\* counted in errors, the loop goes on, every other active security is
\* scored or skipped as it would be without the failure, and
\* scored + skipped + errors is the number of active securities.
C14_OneFailureIsolated ==
    (LoopOver /\ Cardinality(OwnFailures) = 1) =>
        LET bad == scorer.raised[CHOOSE i \in OwnFailures : TRUE].stock_id
            rest == SelectSeq(scorer.active, LAMBDA c : c # bad)
            K == Cardinality(Snapshotless(rest))
        IN  /\ scorer.errors = 1
            /\ scorer.skipped = K
            /\ scorer.scored = Len(rest) - K
            /\ \A i \in DOMAIN rest :
                  rest[i] \in ScoredStocks <=> i \notin Snapshotless(rest)
            /\ scorer.scored + scorer.skipped + scorer.errors
                  = Len(scorer.active)

\* the rows the current score_all_stocks call has put in the store
BatchRows ==
    SubSeq(composite_scores, scorer.stored + 1, Len(composite_scores))

Answered == lastTop.kind # "none"

\* the answer has at most limit rows
AtMostLimit == Len(lastTop.rows) <= lastTop.limit

\* every row of the answer belongs to a stock that was active
OnlyActive ==
    \A i \in DOMAIN lastTop.rows : lastTop.rows[i].score.stock_id \notin lastTop.off

\* every row of the answer has the most recent score_date of the store
OnlyMostRecent ==
    \A i \in DOMAIN lastTop.rows :
        lastTop.rows[i].score.score_date = lastTop.latest

\* the rows of the answer descend by the score asked for
Descending ==
    \A i, j \in DOMAIN lastTop.rows :
        i < j => lastTop.rows[i].score[lastTop.kind]
                    >= lastTop.rows[j].score[lastTop.kind]

\* no stock has two rows in the answer
NoStockTwice ==
    \A i, j \in DOMAIN lastTop.rows :
        lastTop.rows[i].score.stock_id = lastTop.rows[j].score.stock_id
            => i = j

\* C16, as stated: for every N >= 1 and any history of scoring batches, a
\* top-N query (get_top_stocks, the fundamental and the sentiment rankings)
\* returns at most N records, all of active securities and of the most
\* recent score_date, ordered by the requested score descending, and no
\* security more than once.
C16_TopNCurrent ==
    Answered =>
        /\ AtMostLimit
        /\ OnlyActive
        /\ OnlyMostRecent
        /\ Descending
        /\ NoStockTwice

\* the store has no snapshot of the stock
NoSnapshot(c) ==
    \A k \in DOMAIN fundamentals : fundamentals[k].stock # c

\* the active stocks the loop of the current run has dealt with, whose
\* scoring did not raise
Handled ==
    {scorer.active[i] : i \in 1..(Len(scorer.active) - Len(scorer.todo))}
        \ {scorer.raised[i].stock_id : i \in DOMAIN scorer.raised}

\* C17: compute_composite_score returns None when the security does not
\* exist or has no FundamentalSnapshot, and score_all_stocks counts such a
\* security as skipped, never as scored (and, its scoring not raising,
\* never as an error).
C17_MissingDataSkipped ==
    /\ (/\ lastScore.called
        /\ \/ lastScore.stock_id \notin stocks
           \/ NoSnapshot(lastScore.stock_id))
       => lastScore.result = None
    /\ scorer.pc \in {"loop", "done"} =>
          /\ \A c \in Handled : NoSnapshot(c) => c \notin ScoredStocks
          /\ scorer.skipped = Cardinality({c \in Handled : NoSnapshot(c)})
          /\ scorer.errors = Len(scorer.raised)

\* compute_composite_score answered None for an id without a Stock row,
\* after a batch that skipped a security without a snapshot
C17_Witness ==
    /\ lastScore.called
    /\ lastScore.stock_id = Unlisted
    /\ lastScore.result = None
    /\ ScoringReturned
    /\ scorer.skipped = 1
    /\ scorer.scored = 2
    /\ scorer.errors = 0

\* the sentiment_score values of the observations of a stock created in
\* the 30 days up to the day t
WindowScores(c, t) ==
    LET inside == SelectSeq(sentiment_scores,
                            LAMBDA o : o.stock_id = c /\ o.created_at >= t - 30)
    IN  [i \in DOMAIN inside |-> inside[i].sentiment_score]

\* x is a / b rounded to the nearest integer (b > 0)
IsRounded(x, a, b) == 2 * (x * b - a) <= b /\ 2 * (a - x * b) <= b

\* the score data is the weighted sum of its fundamental score and of the
\* 0-100 aggregate of the sentiment of the last 30 days
WellCombined(d) ==
    LET w == WindowScores(d.stock_id, d.score_date)
        n == Len(w)
    IN  /\ IsRounded(d.composite_score,
                     settings.FUNDAMENTAL_WEIGHT * d.fundamental_score
                        + settings.SENTIMENT_WEIGHT * d.sentiment_score,
                     1000)
        /\ IF n = 0 THEN d.sentiment_score = 50 * 100
           ELSE IsRounded(d.sentiment_score, 50 * (SumOver(w, n) + 100 * n), n)

\* C18: for every scored security composite_score is
\* fundamental_weight * fundamental_score + sentiment_weight * sentiment_score
\* rounded to 2 decimals, sentiment_score being the 0-100 aggregate over the
\* 30-day window; fundamental 80, sentiment 60 and weights 0.6/0.4 give 72.0.
C18_WeightedComposite ==
    /\ scorer.pc # "idle" =>
          \A i \in DOMAIN scorer.scores : WellCombined(scorer.scores[i])
    /\ (lastScore.called /\ lastScore.result # None) =>
          WellCombined(lastScore.result[1])
    /\ weighted_composite(DefaultSettings, 80 * 100, 60 * 100) = 72 * 100

\* a second batch scores a security whose older observation has left the
\* window: the remaining one, -0.25, gives sentiment 37.5
C18_Witness ==
    /\ ScoringReturned
    /\ scorer.runs = 2
    /\ \E i \in DOMAIN scorer.scores :
          /\ scorer.scores[i].stock_id = "TCS"
          /\ scorer.scores[i].sentiment_score = 3750
          /\ scorer.scores[i].fundamental_score = 500000
          /\ scorer.scores[i].composite_score = 301500

\* the weights the construction worked on: those of the environment, the
\* defaults 0.6 and 0.4 where it has none
GivenSum ==
    (IF settings.env.FUNDAMENTAL_WEIGHT = None THEN 600
     ELSE settings.env.FUNDAMENTAL_WEIGHT[1])
    + (IF settings.env.SENTIMENT_WEIGHT = None THEN 400
       ELSE settings.env.SENTIMENT_WEIGHT[1])

\* C19: whenever the settings object is constructed, from explicit weights
\* or defaults, |FUNDAMENTAL_WEIGHT + SENTIMENT_WEIGHT - 1.0| <= 0.01; every
\* other combination, 0.6 and 0.45 among them, makes the construction fail,
\* and scoring never starts without a constructed settings object.
C19_WeightsValidated ==
    /\ settings.status = "ok" =>
          /\ settings.FUNDAMENTAL_WEIGHT + settings.SENTIMENT_WEIGHT - 1000
                <= 10
          /\ 1000 - settings.FUNDAMENTAL_WEIGHT - settings.SENTIMENT_WEIGHT
                <= 10
    /\ (settings.status # "unset" /\ (GivenSum > 1010 \/ GivenSum < 990))
          => settings.status = "error"
    /\ Constructed(Some(600), Some(450)) = {[status |-> "error",
          env |-> [FUNDAMENTAL_WEIGHT |-> Some(600),
                   SENTIMENT_WEIGHT |-> Some(450)]]}
    /\ scorer.pc # "idle" =>
          /\ settings.status = "ok"
          /\ scorer.fundamental_weight + scorer.sentiment_weight <= 1010
          /\ scorer.fundamental_weight + scorer.sentiment_weight >= 990

\* the environment sets only FUNDAMENTAL_WEIGHT, the default of
\* SENTIMENT_WEIGHT is validated against it and the construction fails
C19_Witness ==
    /\ settings.status = "error"
    /\ settings.env.FUNDAMENTAL_WEIGHT = Some(700)
    /\ settings.env.SENTIMENT_WEIGHT = None

\* the metrics of a snapshot that have data
present(fundamental) ==
    {MetricNames[i] : i \in {j \in DOMAIN MetricNames :
                                 fundamental[MetricNames[j]] # None}}

\* the sum of the weights of the metrics that have data
PresentWeight(fundamental) ==
    SumOver([i \in DOMAIN MetricNames |->
                IF fundamental[MetricNames[i]] = None THEN 0
                ELSE thresholds[MetricNames[i]].weight],
            Len(MetricNames))

\* the weighted sum of the scores of the metrics that have data
PresentSum(fundamental) ==
    SumOver([i \in DOMAIN MetricNames |->
                IF fundamental[MetricNames[i]] = None THEN 0
                ELSE MetricScore(fundamental, MetricNames[i])
                         * thresholds[MetricNames[i]].weight],
            Len(MetricNames))

\* C21, as stated: compute_fundamental_score normalises over the metrics
\* that have data only: an absent metric is in neither the breakdown,
\* metrics_used, total_weight nor the weighted sum, and the total of a
\* snapshot with some metrics missing is the weighted average of the scores
\* of its present metrics.
C21_PresentMetricsOnly ==
    fscore.called =>
        LET f == fscore.fundamental
            r == fscore.result
        IN  /\ DOMAIN r.breakdown = present(f)
            /\ r.metrics_used = Cardinality(present(f))
            /\ r.total_weight = PresentWeight(f)
            /\ present(f) # {} =>
                  r.total_score
                      = RoundHalfEven(PresentSum(f), 100 * PresentWeight(f))

\* C22, as stated: for a snapshot in which none of the seven tracked
\* metrics has data, compute_fundamental_score returns total_score 50 with
\* an empty breakdown and metrics_used 0.
C22_NoDataNeutral ==
    (fscore.called /\ present(fscore.fundamental) = {}) =>
        /\ fscore.result.total_score = 50 * 100
        /\ DOMAIN fscore.result.breakdown = {}
        /\ fscore.result.metrics_used = 0

\* C23: for every threshold pair the scorer uses, each of the seven metrics
\* with its configured inverse flag, score_metric of a value equal to the
\* excellent threshold is exactly 100, inverse or not.
C23_ExcellentIsHundred ==
    (fscore.called /\ fscore.value = Some(fscore.excellent_threshold))
        => fscore.score = 100 * Point

\* the inverse metric debt_to_equity at its excellent threshold 0.5
C23_Witness ==
    /\ fscore.called
    /\ fscore.metric = "debt_to_equity"
    /\ fscore.inverse
    /\ fscore.value = Some(50)
    /\ fscore.score = 100 * Point

\* C24, as stated: for every threshold pair the scorer uses, pe_ratio 15/25
\* and pb_ratio 2/3 among them, score_metric of a value equal to the good
\* threshold is exactly 70.
C24_GoodIsSeventy ==
    (fscore.called /\ fscore.value = Some(fscore.good_threshold))
        => fscore.score = 70 * Point

\* the positions of the rows of a stock created at or after the day t - days
FromCutoff(c, t) ==
    {i \in DOMAIN sentiment_scores :
        /\ sentiment_scores[i].stock_id = c
        /\ sentiment_scores[i].created_at >= t - days}

\* the positions of the rows of a stock created from the day t - days to
\* the day t
UpToNow(c, t) ==
    {i \in FromCutoff(c, t) : sentiment_scores[i].created_at <= t}

\* the positions among I of the rows with a label
Labelled(I, label) ==
    {i \in I : sentiment_scores[i].sentiment_label = label}

\* the sum of the sentiment_score of the rows at the positions I
ScoreSum(I) ==
    SumOver([i \in DOMAIN sentiment_scores |->
                IF i \in I THEN sentiment_scores[i].sentiment_score ELSE 0],
            Len(sentiment_scores))

\* the result counts the rows at the positions I, and its mean is theirs
Aggregates(result, I) ==
    /\ result.count = Cardinality(I)
    /\ result.positive_count = Cardinality(Labelled(I, "positive"))
    /\ result.negative_count = Cardinality(Labelled(I, "negative"))
    /\ result.neutral_count = Cardinality(Labelled(I, "neutral"))
    /\ I # {} => IsRounded(result.average_score, 10 * ScoreSum(I),
                           Cardinality(I))
    /\ I = {} => result.average_score = 0

\* C25: aggregate_sentiment_score for a security with no observation in the
\* window returns exactly average_score 0, score_0_100 50, count 0 and the
\* three label counts 0, and does not raise.
C25_EmptyWindowNeutral ==
    (aggregate.called /\ FromCutoff(aggregate.stock_id, aggregate.utcnow) = {})
        => aggregate.result
              = [average_score |-> 0, score_0_100 |-> 50 * 100, count |-> 0,
                 positive_count |-> 0, negative_count |-> 0,
                 neutral_count |-> 0]

\* TCS has one observation, older than the window, and INFY has one inside
\* it: the aggregate of TCS is the neutral one
C25_Witness ==
    /\ aggregate.called
    /\ aggregate.stock_id = "TCS"
    /\ aggregate.utcnow = days + 1
    /\ \E i, j \in DOMAIN sentiment_scores :
          /\ sentiment_scores[i].stock_id = "TCS"
          /\ sentiment_scores[i].created_at = 0
          /\ sentiment_scores[j].stock_id = "INFY"
          /\ sentiment_scores[j].created_at = days + 1
    /\ aggregate.result.count = 0
    /\ aggregate.result.score_0_100 = 50 * 100

\* the scores between -1 and +1, in steps of a quarter
Scores == {25 * k : k \in (0 - 4)..4}

\* the result for a window of n scores whose sum is total does not order
\* two means the other way round than the means themselves
Monotone(total, n, score, other, m, otherScore) ==
    /\ other * n <= total * m => otherScore <= score
    /\ other * n >= total * m => otherScore >= score

\* C26: for a non-empty window score_0_100 = (mean + 1) * 50, rounded to
\* two places: it does not decrease when the mean increases (compared
\* with every window of one score and with the window of each security in
\* the store), maps -1 to 0, 0 to 50 and +1 to 100, and is within 0..100
\* for scores within -1..+1.
C26_ScoreFromMean ==
    (aggregate.called /\ aggregate.result.count > 0) =>
        LET I == FromCutoff(aggregate.stock_id, aggregate.utcnow)
            n == Cardinality(I)
            total == ScoreSum(I)
            score == aggregate.result.score_0_100
        IN  /\ IsRounded(score, 50 * (total + 100 * n), n)
            /\ total = 0 - 100 * n => score = 0
            /\ total = 0 => score = 50 * 100
            /\ total = 100 * n => score = 100 * 100
            /\ score >= 0 /\ score <= 100 * 100
            /\ \A other \in Scores :
                  Monotone(total, n, score, other, 1, score_0_100(other, 1))
            /\ \A c \in Securities :
                  LET J == FromCutoff(c, aggregate.utcnow)
                  IN  J # {} =>
                         Monotone(total, n, score, ScoreSum(J), Cardinality(J),
                                  aggregate_sentiment_score(c, sentiment_scores,
                                      aggregate.utcnow).score_0_100)

\* three observations of TCS in the window with the scores +1, +0.25 and
\* -1: the mean is 0.083 and score_0_100 is 54.17
C26_Witness ==
    /\ aggregate.called
    /\ aggregate.stock_id = "TCS"
    /\ aggregate.result.count = 3
    /\ ScoreSum(FromCutoff("TCS", aggregate.utcnow)) = 25
    /\ aggregate.result.average_score = 83
    /\ aggregate.result.score_0_100 = 5417

\* C27, as stated: aggregate_sentiment_score aggregates exactly the
\* observations of the security created within [now - windowDays, now];
\* older ones, ones timestamped after now and ones of other securities are
\* excluded from the mean and the counts.
C27_WindowUpToNow ==
    aggregate.called =>
        Aggregates(aggregate.result,
                   UpToNow(aggregate.stock_id, aggregate.utcnow))

\* C27, amended: aggregate_sentiment_score aggregates exactly the
\* observations of the security created at or after now - windowDays; older
\* ones and ones of other securities are excluded from the mean and the
\* counts, ones timestamped after now are included.
C27_WindowFromCutoff ==
    aggregate.called =>
        Aggregates(aggregate.result,
                   FromCutoff(aggregate.stock_id, aggregate.utcnow))

\* TCS has an observation older than the window and one timestamped after
\* now, INFY has one inside the window: the aggregate of TCS is that of
\* the observation timestamped after now
C27_Witness ==
    /\ aggregate.called
    /\ aggregate.stock_id = "TCS"
    /\ aggregate.utcnow = days + 1
    /\ \E i, j, k \in DOMAIN sentiment_scores :
          /\ sentiment_scores[i].stock_id = "TCS"
          /\ sentiment_scores[i].created_at = 0
          /\ sentiment_scores[i].sentiment_score = 100
          /\ sentiment_scores[j].stock_id = "INFY"
          /\ sentiment_scores[j].created_at = days + 1
          /\ sentiment_scores[j].sentiment_score = 100
          /\ sentiment_scores[k].stock_id = "TCS"
          /\ sentiment_scores[k].created_at = days + 2
          /\ sentiment_scores[k].sentiment_score = 0 - 100
    /\ aggregate.result.count = 1
    /\ aggregate.result.negative_count = 1
    /\ aggregate.result.average_score = 0 - 1000

\* the attempt of a worker failed after it had invoked process_data
FailedAfterProcessing(w) ==
    /\ w.pc \in {"except", "wrapper"}
    /\ w.procCalled

\* a domain row of the bundle of the attempt is in the store
Persisted(w) ==
    \E j \in DOMAIN w.data :
        IF w.itype = "fundamental"
        THEN \E i \in DOMAIN fundamentals :
                fundamentals[i] = [stock |-> w.data[j].symbol,
                                   pe_ratio |-> w.data[j].pe_ratio,
                                   data_date |-> w.data[j].data_date]
        ELSE \E i \in DOMAIN news : news[i] = NewsRow(w.data[j])

\* C28, as stated: an ingestion attempt is atomic at batch level: when it
\* fails after processing has begun (process_data raises, or the write of
\* the 'success' audit row fails), no domain row committed by that attempt
\* remains in the store.
C28_FailedAttemptLeavesNothing ==
    \A p \in Procs :
        FailedAfterProcessing(worker[p])
            => ~(worker[p].wrote /\ Persisted(worker[p]))

\* the pair of a news item and a stock has a row in sentiment_scores
Observed(l) ==
    \E k \in DOMAIN sentiment_scores :
        sentiment_scores[k] = SentimentScore(l.news, l.stock)

\* C29, as stated: under repeated invocation of analyze_pending_news with a
\* classifier and a store that eventually work, every pair of a news item
\* and an associated stock eventually has a row in sentiment_scores; a pair
\* whose analysis failed once is analysed again by a later call.
C29_EveryPairEventuallyObserved ==
    \A l \in Links : [](l \in news_stocks => <>Observed(l))

\* ingest_fundamental_for_symbol has returned or raised
TaskEnded == task.pc \in {"returned", "raised"}

\* C30, as stated: ingest_fundamental_for_symbol leaves the shared
\* configuration as it found it: after the task returns or raises, the
\* ingestion run having failed after all its retries included,
\* settings.TRACKED_STOCKS is what it was before the call.
C30_TrackedRestored ==
    TaskEnded => settings.TRACKED_STOCKS = task.original_stocks

\* C20, as stated: for every FundamentalSnapshot, whatever metrics are
\* present or absent, compute_fundamental_score returns a total_score
\* within 0..100 (0..10000 hundredths).
C20_TotalWithinRange ==
    fscore.called =>
        /\ fscore.result.total_score >= 0
        /\ fscore.result.total_score <= 100 * 100
====
